---- MODULE Spec2Model ----
(***************************************************************************)
(* A model of beancount_lazy_plugins.pad_extended: one call of the plugin  *)
(* pad_extended(entries, options_map, config_str) as a state machine.      *)
(* The inputs (the directive list and the configuration string) are drawn  *)
(* in Init; Start is the configuration phase, BeginWalk / WalkEvent are    *)
(* the per-account walk over the sorted posting timeline, and InsertStep   *)
(* is the final merge that builds the returned directive list.             *)
(*                                                                         *)
(* Accounts are sequences of their colon-separated components, None is the *)
(* empty sequence.  A regular expression is modelled by the anchored       *)
(* component prefix it accepts (".*" is the empty prefix) and a validity   *)
(* bit (re.compile raises re.error on an invalid one).  A template is a    *)
(* sequence of components in which "{type}" and "{name}" are placeholders. *)
(* Amounts are integers (Decimal numbers of exponent 0).                   *)
(***************************************************************************)
EXTENDS Integers, Sequences, FiniteSets, TLC

VARIABLES
    entries,                    \* input: the directive list
    config_str,                 \* input: the configuration string
    pc,                         \* position in pad_extended
    outcome,                    \* "running", "returned" or "raised"
    aborted,                    \* returned early on a configuration error
    config,                     \* the parsed configuration dict
    default_pad_account_config, \* the rule list (directive rules + default table)
    default_pad_acount_cache,   \* (padded account, sign) -> resolved source
    walk_queue,                 \* padded accounts still to walk, sorted
    account_,                   \* the account being walked
    postings,                   \* the rest of the walked account's timeline
    active_pad,                 \* id of the active pad marker, 0 for None
    padded_lots,                \* currencies already checked under active_pad
    pad_balance,                \* the running inventory of the walk
    new_entries,                \* id(pad) -> transactions recorded against it
    pad_errors,                 \* the diagnostics
    padded_entries,             \* the returned directive list
    bx_entries,                 \* balance_extended: the directive list (entries)
    bx_config_str,              \* balance_extended: the configuration string
    bx_pc,                      \* position in balance_extended, and how it ended
    bx_config,                  \* balance_extended: the parsed configuration dict
    balance_type_config,        \* the rules of the balance-ext-config directives
    existing_pad_keys,          \* the (date, account) pairs that have a pad
    account_currencies,         \* account -> currencies of its Open directive
    balance_extended_parsed_entries, \* id(entry) -> the parsed balance-ext
    balance_dates_per_account,  \* account -> sorted dates of its balances
    bx_index,                   \* the directive the expanding loop is at
    bx_new_entries,             \* balance_extended: the list it builds (new_entries)
    bx_errors,                  \* balance_extended: the errors (errors)
    cu_entries,                 \* currencies_used: the directive list (entries)
    cu_config_str,              \* currencies_used: the configuration string
    cu_pc,                      \* position in currencies_used, and how it ended
    cu_config,                  \* currencies_used: the parsed configuration dict
    cu_account_currencies,      \* account -> currencies of its postings
    cu_index,                   \* the directive the second pass is at
    cu_new_entries,             \* currencies_used: the list it builds (new_entries)
    cu_errors,                  \* currencies_used: the errors (errors)
    gp_entries,                 \* group_pad_transactions: the directive list
    gp_pc,                      \* position in group_pad_transactions
    gp_index,                   \* the directive the first loop is at
    gp_result,                  \* group_pad_transactions: the list it builds
    pad_transactions_by_groupping \* (date, account, account) -> transactions

\* the variables of pad_extended
pad_vars == <<entries, config_str, pc, outcome, aborted, config,
              default_pad_account_config, default_pad_acount_cache, walk_queue,
              account_, postings, active_pad, padded_lots, pad_balance,
              new_entries, pad_errors, padded_entries>>

\* the variables of balance_extended
bx_vars == <<bx_entries, bx_config_str, bx_pc, bx_config, balance_type_config,
             existing_pad_keys, account_currencies,
             balance_extended_parsed_entries, balance_dates_per_account,
             bx_index, bx_new_entries, bx_errors>>

\* the variables of currencies_used
cu_vars == <<cu_entries, cu_config_str, cu_pc, cu_config, cu_account_currencies,
             cu_index, cu_new_entries, cu_errors>>

\* the variables of group_pad_transactions
gp_vars == <<gp_entries, gp_pc, gp_index, gp_result,
             pad_transactions_by_groupping>>

vars == <<pad_vars, bx_vars, cu_vars, gp_vars>>

---------------------------------------------------------------------------
\* Bounds of the model.

\* the longest input directive list
MaxEntries == 3

---------------------------------------------------------------------------
\* Values of the directive model.

NoAccount == <<>>
NoTemplate == <<>>
NoCost == "None"
NoTolerance == <<>>

AcctA == <<"Assets", "A">>
AcctAB == <<"Assets", "A", "B">>
AcctS == <<"Equity", "S">>
AcctX == <<"Equity", "X">>

Currencies == {"USD", "EUR"}
CostOrder == <<NoCost, "c1", "c2">>
Costs == {CostOrder[n] : n \in 1..Len(CostOrder)}

\* a compiled-or-not regular expression: present (non-empty string), valid,
\* and the anchored component prefix it matches
Regex(prefix) == [present |-> TRUE, valid |-> TRUE, prefix |-> prefix]
ReAll == Regex(<<>>)
ReInvalid == [present |-> TRUE, valid |-> FALSE, prefix |-> <<>>]
NoRegex == [present |-> FALSE, valid |-> TRUE, prefix |-> <<>>]

NoMeta == [pad_account |-> NoAccount, account_regex |-> NoRegex,
           pad_account_expenses |-> NoTemplate, pad_account_income |-> NoTemplate]

Posting(account, number, currency, cost, meta) ==
    [account |-> account, number |-> number, currency |-> currency,
     cost |-> cost, meta |-> meta]

Blank == [kind |-> "Open", type |-> "", date |-> 0, lineno |-> 0, flag |-> "",
          account |-> NoAccount, source_account |-> NoAccount, values |-> <<>>,
          number |-> 0, currency |-> "", tolerance |-> NoTolerance,
          postings |-> <<>>, meta |-> NoMeta]

Open(account) == [Blank EXCEPT !.kind = "Open", !.account = account]

Transaction(flag, posts) ==
    [Blank EXCEPT !.kind = "Transaction", !.flag = flag, !.postings = posts]

Balance(account, number, currency, tolerance) ==
    [Blank EXCEPT !.kind = "Balance", !.account = account, !.number = number,
                  !.currency = currency, !.tolerance = tolerance]

Pad(account, source_account) ==
    [Blank EXCEPT !.kind = "Pad", !.account = account,
                  !.source_account = source_account]

\* custom "pad-ext" <account>, with an optional pad_account metadata key
PadExt(account, pad_account) ==
    [Blank EXCEPT !.kind = "Custom", !.type = "pad-ext", !.values = <<account>>,
                  !.meta = [NoMeta EXCEPT !.pad_account = pad_account]]

\* custom "pad-ext-config", all its fields are metadata
PadExtConfig(regex, pad_account, expenses, income) ==
    [Blank EXCEPT !.kind = "Custom", !.type = "pad-ext-config",
                  !.meta = [pad_account |-> pad_account, account_regex |-> regex,
                            pad_account_expenses |-> expenses,
                            pad_account_income |-> income]]

---------------------------------------------------------------------------
\* Generic helpers.

RECURSIVE SumSeq(_)
SumSeq(s) == IF s = <<>> THEN 0 ELSE Head(s) + SumSeq(Tail(s))

RECURSIVE Reversed(_)
Reversed(s) == IF s = <<>> THEN <<>> ELSE Append(Reversed(Tail(s)), Head(s))

RECURSIVE Flatten(_)
Flatten(ss) == IF ss = <<>> THEN <<>> ELSE Head(ss) \o Flatten(Tail(ss))

IsPrefix(p, s) == Len(p) <= Len(s) /\ SubSeq(s, 1, Len(p)) = p

Abs(n) == IF n < 0 THEN -n ELSE n

---------------------------------------------------------------------------
\* The configuration string and the configuration dict.

ConfigKeys == {"handle_default_pad_directives",
               "generate_errors_on_unused_pad_entries", "default_pad_account"}

\* a dict literal: the keys it holds and their values
ConfigDict(keys, handle, unused, table) ==
    [keys |-> keys, handle_default_pad_directives |-> handle,
     generate_errors_on_unused_pad_entries |-> unused,
     default_pad_account |-> table]

EmptyConfig == ConfigDict({}, FALSE, FALSE, <<>>)

\* config_str: not given (None or ""), a string that is no literal, or a literal
NoConfigStr == [given |-> FALSE, literal |-> FALSE, value |-> EmptyConfig]
BadConfigStr == [given |-> TRUE, literal |-> FALSE, value |-> EmptyConfig]
ConfigStr(dict) == [given |-> TRUE, literal |-> TRUE, value |-> dict]

\* an entry of default_pad_account: (regex, source...) -- rest holds item[1:]
Item(regex, rest) == [regex |-> regex, rest |-> rest]
ItemLen(item) == 1 + Len(item.rest)

DEFAULT_DEFAULT_PAD_ACCOUNT_CONFIG ==
    << Item(ReAll, << <<"Expenses", "Unattributed", "{name}">>,
                      <<"Income", "Unattributed", "{name}">> >>) >>

\* ast.literal_eval(config_str), ValueError / SyntaxError as ok = FALSE
literal_eval(cs) == [ok |-> cs.literal, value |-> cs.value]

\* config.get('handle_default_pad_directives', False)
GetHandleDefault(cfg) ==
    IF "handle_default_pad_directives" \in cfg.keys
    THEN cfg.handle_default_pad_directives ELSE FALSE

\* config.get('generate_errors_on_unused_pad_entries', False)
GetUnusedErrors(cfg) ==
    IF "generate_errors_on_unused_pad_entries" \in cfg.keys
    THEN cfg.generate_errors_on_unused_pad_entries ELSE FALSE

\* config.get('default_pad_account', DEFAULT_DEFAULT_PAD_ACCOUNT_CONFIG)
GetDefaultTable(cfg) ==
    IF "default_pad_account" \in cfg.keys
    THEN cfg.default_pad_account ELSE DEFAULT_DEFAULT_PAD_ACCOUNT_CONFIG

---------------------------------------------------------------------------
\* RegexToPadAccountMapping and the parsing of rules.

Mapping(regex, pad_account, expenses, income) ==
    [isNone |-> FALSE, regex |-> regex, pad_account |-> pad_account,
     pad_account_expenses |-> expenses, pad_account_income |-> income]

\* the None that parse_pad_account_item returns for a 1-element item
NoneMapping == [Mapping(NoRegex, NoTemplate, NoTemplate, NoTemplate)
                    EXCEPT !.isNone = TRUE]

\* regex.match(account): the pattern accepts a prefix of the account
ReMatch(regex, account) == IsPrefix(regex.prefix, account)

\* parse_pad_account_item(item): raised stands for ValueError / re.error
parse_pad_account_item(item) ==
    IF ItemLen(item) > 4 THEN [raised |-> TRUE, mapping |-> NoneMapping]
    ELSE IF ~item.regex.valid THEN [raised |-> TRUE, mapping |-> NoneMapping]
    ELSE IF ItemLen(item) = 2
    THEN [raised |-> FALSE,
          mapping |-> Mapping(item.regex, item.rest[1], NoTemplate, NoTemplate)]
    ELSE IF ItemLen(item) >= 3
    THEN [raised |-> FALSE,
          mapping |-> Mapping(item.regex, NoTemplate, item.rest[2], item.rest[1])]
    ELSE [raised |-> FALSE, mapping |-> NoneMapping]

\* the loop of pad_extended over reversed(default_pad_account)
RECURSIVE ParseItems(_)
ParseItems(items) ==
    IF items = <<>> THEN [raised |-> FALSE, mappings |-> <<>>]
    ELSE LET first == parse_pad_account_item(Head(items))
             rest == ParseItems(Tail(items))
         IN IF first.raised \/ rest.raised
            THEN [raised |-> TRUE, mappings |-> <<>>]
            ELSE [raised |-> FALSE, mappings |-> <<first.mapping>> \o rest.mappings]

ParseDefaultTable(cfg) == ParseItems(Reversed(GetDefaultTable(cfg)))

\* PadError(source, message, entry): source and entry are line numbers, 0 is None
PadError(source, message, entry) ==
    [source |-> source, message |-> message, entry |-> entry]

IsPadExtConfig(entry) == entry.kind = "Custom" /\ entry.type = "pad-ext-config"

\* one iteration of the loop of get_directives_defined_config
ParseConfigEntry(entry) ==
    IF ~entry.meta.account_regex.present
    THEN [mappings |-> <<>>,
          errors |-> <<PadError(entry.lineno, "account_regex is required in config entry",
                                entry.lineno)>>]
    ELSE IF ~entry.meta.account_regex.valid
    THEN [mappings |-> <<>>,
          errors |-> <<PadError(entry.lineno, "Invalid account_regex", entry.lineno)>>]
    ELSE IF entry.meta.pad_account_expenses # NoTemplate
            /\ entry.meta.pad_account_income # NoTemplate
    THEN [mappings |-> <<Mapping(entry.meta.account_regex, NoTemplate,
                                 entry.meta.pad_account_expenses,
                                 entry.meta.pad_account_income)>>,
          errors |-> <<>>]
    ELSE IF entry.meta.pad_account # NoTemplate
    THEN [mappings |-> <<Mapping(entry.meta.account_regex, entry.meta.pad_account,
                                 NoTemplate, NoTemplate)>>,
          errors |-> <<>>]
    ELSE [mappings |-> <<>>,
          errors |-> <<PadError(entry.lineno,
                                "pad-ext-config requires account_regex and accounts",
                                entry.lineno)>>]

RECURSIVE ParseConfigEntries(_)
ParseConfigEntries(es) ==
    IF es = <<>> THEN [mappings |-> <<>>, errors |-> <<>>]
    ELSE LET first == ParseConfigEntry(Head(es))
             rest == ParseConfigEntries(Tail(es))
         IN [mappings |-> first.mappings \o rest.mappings,
             errors |-> first.errors \o rest.errors]

\* rules of the pad-ext-config directives in the order of their declaration
get_directives_defined_config_in_order(es) ==
    ParseConfigEntries(SelectSeq(es, IsPadExtConfig))

\* get_directives_defined_config(entries, pad_errors): the rules of the
\* pad-ext-config directives, last declared first, and the errors appended
get_directives_defined_config(es) ==
    ParseConfigEntries(Reversed(SelectSeq(es, IsPadExtConfig)))

---------------------------------------------------------------------------
\* Pad markers and the resolution of the source account.

\* a marker test that takes every native Pad directive for a pad marker
is_pad_entry_any(entry, cfg) ==
    IF entry.kind = "Pad" THEN TRUE
    ELSE entry.kind = "Custom" /\ entry.type = "pad-ext"

is_pad_entry(entry, cfg) ==
    IF entry.kind = "Pad" THEN GetHandleDefault(cfg)
    ELSE entry.kind = "Custom" /\ entry.type = "pad-ext"

\* a padded account that is also the source account of a native Pad
get_padded_account_or_source(pad_entry) ==
    IF pad_entry.kind = "Pad" THEN pad_entry.source_account ELSE pad_entry.values[1]

get_padded_account(pad_entry) ==
    IF pad_entry.kind = "Pad" THEN pad_entry.account ELSE pad_entry.values[1]

\* math.copysign(1, number)
CopySign(number) == IF number < 0 THEN -1 ELSE 1

\* template.format(type=account_type, name=name)
RECURSIVE Format(_, _, _)
Format(template, account_type, name) ==
    IF template = <<>> THEN <<>>
    ELSE (IF Head(template) = "{type}" THEN <<account_type>>
          ELSE IF Head(template) = "{name}" THEN name
          ELSE <<Head(template)>>) \o Format(Tail(template), account_type, name)

\* a cache key that forgets the sign
CacheKeyNoSign(account, sign) == [account |-> account, sign |-> 1]

\* a cache key that forgets the account
CacheKeyNoAccount(account, sign) == [account |-> NoAccount, sign |-> sign]

\* key = (pad_entry_account, position_sign)
CacheKey(account, sign) == [account |-> account, sign |-> sign]
CacheKeys(cache) == {CacheKey(c.account, c.sign) : c \in cache}
CacheGet(cache, key) ==
    (CHOOSE c \in cache : CacheKey(c.account, c.sign) = key).res
CachePut(cache, key, res) ==
    {c \in cache : CacheKey(c.account, c.sign) # key}
        \cup {[account |-> key.account, sign |-> key.sign, res |-> res]}

\* a rule body that takes the expenses template for a positive sign
MappingResultSwapped(mapping, position_sign, account_type, name) ==
    IF mapping.pad_account_expenses # NoTemplate
       /\ mapping.pad_account_income # NoTemplate
    THEN [raised |-> FALSE,
          res |-> IF position_sign > 0
                  THEN Format(mapping.pad_account_expenses, account_type, name)
                  ELSE Format(mapping.pad_account_income, account_type, name)]
    ELSE IF mapping.pad_account # NoTemplate
    THEN [raised |-> FALSE, res |-> Format(mapping.pad_account, account_type, name)]
    ELSE [raised |-> TRUE, res |-> NoAccount]

\* the body of the loop over default_pad_account_config for a matching rule
MappingResult(mapping, position_sign, account_type, name) ==
    IF mapping.pad_account_expenses # NoTemplate
       /\ mapping.pad_account_income # NoTemplate
    THEN [raised |-> FALSE,
          res |-> IF position_sign > 0
                  THEN Format(mapping.pad_account_income, account_type, name)
                  ELSE Format(mapping.pad_account_expenses, account_type, name)]
    ELSE IF mapping.pad_account # NoTemplate
    THEN [raised |-> FALSE, res |-> Format(mapping.pad_account, account_type, name)]
    ELSE [raised |-> TRUE, res |-> NoAccount]

\* the loop over default_pad_account_config: the first matching rule decides
RECURSIVE ResolveFrom(_, _, _)
ResolveFrom(mappings, pad_entry_account, position_sign) ==
    IF mappings = <<>> THEN [raised |-> FALSE, found |-> FALSE, res |-> NoAccount]
    ELSE IF Head(mappings).isNone
    THEN [raised |-> TRUE, found |-> FALSE, res |-> NoAccount]
    ELSE IF ReMatch(Head(mappings).regex, pad_entry_account)
    THEN LET r == MappingResult(Head(mappings), position_sign,
                                Head(pad_entry_account), Tail(pad_entry_account))
         IN [raised |-> r.raised, found |-> ~r.raised, res |-> r.res]
    ELSE ResolveFrom(Tail(mappings), pad_entry_account, position_sign)

\* a resolution that asks the cache and the rules before the metadata key
get_source_account_rules_first(pad_entry, number, mappings, cache) ==
    IF pad_entry.kind = "Pad"
    THEN [raised |-> FALSE, res |-> pad_entry.source_account, cache |-> cache]
    ELSE LET key == CacheKey(pad_entry.values[1], CopySign(number))
             r == ResolveFrom(mappings, pad_entry.values[1], CopySign(number))
         IN IF key \in CacheKeys(cache)
            THEN [raised |-> FALSE, res |-> CacheGet(cache, key), cache |-> cache]
            ELSE IF r.found
            THEN [raised |-> FALSE, res |-> r.res,
                  cache |-> CachePut(cache, key, r.res)]
            ELSE [raised |-> FALSE, res |-> pad_entry.meta.pad_account,
                  cache |-> cache]

\* get_source_account(pad_entry, diff_position, default_pad_account_config,
\* default_pad_acount_cache); number is diff_position.units.number.  The
\* result holds the returned account and the cache as the call leaves it.
get_source_account(pad_entry, number, mappings, cache) ==
    IF pad_entry.kind = "Pad"
    THEN [raised |-> FALSE, res |-> pad_entry.source_account, cache |-> cache]
    ELSE IF pad_entry.meta.pad_account # NoAccount
    THEN [raised |-> FALSE, res |-> pad_entry.meta.pad_account, cache |-> cache]
    ELSE LET pad_entry_account == pad_entry.values[1]
             position_sign == CopySign(number)
             key == CacheKey(pad_entry_account, position_sign)
         IN IF key \in CacheKeys(cache)
            THEN [raised |-> FALSE, res |-> CacheGet(cache, key), cache |-> cache]
            ELSE LET r == ResolveFrom(mappings, pad_entry_account, position_sign)
                 IN IF r.raised
                    THEN [raised |-> TRUE, res |-> NoAccount, cache |-> cache]
                    ELSE IF r.found
                    THEN [raised |-> FALSE, res |-> r.res,
                          cache |-> CachePut(cache, key, r.res)]
                    ELSE [raised |-> FALSE, res |-> NoAccount, cache |-> cache]

---------------------------------------------------------------------------
\* The posting timeline of an account (realization.postings_by_account and
\* the gathering and sorting at the head of the walk).

\* an element of a by_account list: entry idx of the input list, and for a
\* TxnPosting the index of the posting (0 for a directive)
Event(account, idx, pidx) == [account |-> account, idx |-> idx, pidx |-> pidx]

\* what postings_by_account appends for one entry, in order
EntryEvents(es, i) ==
    LET e == es[i] IN
    IF e.kind = "Transaction"
    THEN [p \in 1..Len(e.postings) |-> Event(e.postings[p].account, i, p)]
    ELSE IF e.kind \in {"Open", "Balance"} THEN <<Event(e.account, i, 0)>>
    ELSE IF e.kind = "Pad"
    THEN <<Event(e.account, i, 0), Event(e.source_account, i, 0)>>
    ELSE [k \in 1..Len(e.values) |-> Event(e.values[k], i, 0)]

AllEvents(es) == Flatten([i \in 1..Len(es) |-> EntryEvents(es, i)])

\* the keys of the by_account dict, in insertion order
RECURSIVE KeysInOrder(_, _)
KeysInOrder(evs, seen) ==
    IF evs = <<>> THEN <<>>
    ELSE IF Head(evs).account \in seen THEN KeysInOrder(Tail(evs), seen)
    ELSE <<Head(evs).account>>
             \o KeysInOrder(Tail(evs), seen \cup {Head(evs).account})

\* account.parent_matcher(account_)(item_account)
is_child(parent, item_account) == IsPrefix(parent, item_account)

\* data.posting_sortkey: (date, SORT_ORDER of the type, lineno)
SortOrder(kind) == IF kind = "Open" THEN -2 ELSE IF kind = "Balance" THEN -1 ELSE 0
posting_sortkey(es, ev) ==
    <<es[ev.idx].date, SortOrder(es[ev.idx].kind), es[ev.idx].lineno>>

KeyLess(k1, k2) ==
    \/ k1[1] < k2[1]
    \/ k1[1] = k2[1] /\ k1[2] < k2[2]
    \/ k1[1] = k2[1] /\ k1[2] = k2[2] /\ k1[3] < k2[3]

\* insert ev behind every element whose key is not greater (a stable sort)
RECURSIVE InsertSorted(_, _, _)
InsertSorted(es, sorted, ev) ==
    IF sorted = <<>> THEN <<ev>>
    ELSE IF KeyLess(posting_sortkey(es, ev), posting_sortkey(es, Head(sorted)))
    THEN <<ev>> \o sorted
    ELSE <<Head(sorted)>> \o InsertSorted(es, Tail(sorted), ev)

RECURSIVE SortEvents(_, _)
SortEvents(es, evs) ==
    IF evs = <<>> THEN <<>>
    ELSE InsertSorted(es, SortEvents(es, SubSeq(evs, 1, Len(evs) - 1)),
                      evs[Len(evs)])

\* the postings of the account and its children, sorted
Timeline(es, account) ==
    LET evs == AllEvents(es)
        keys == SelectSeq(KeysInOrder(evs, {}), LAMBDA k : is_child(account, k))
        gathered == Flatten([n \in 1..Len(keys) |->
                        SelectSeq(evs, LAMBDA ev : ev.account = keys[n])])
    IN SortEvents(es, gathered)

\* sorted(pad_dict.items()): the universe of accounts in string order
AccountOrder == <<AcctA, AcctAB, AcctS, AcctX>>

PadIds(es, cfg) == {i \in 1..Len(es) : is_pad_entry(es[i], cfg)}

SortedPadAccounts(es, cfg) ==
    SelectSeq(AccountOrder,
              LAMBDA a : \E i \in PadIds(es, cfg) : get_padded_account(es[i]) = a)

---------------------------------------------------------------------------
\* The running inventory.

Keys == Currencies \X Costs
EmptyInventory == [k \in Keys |-> 0]

\* Inventory.add_position: the units are added to the lot of (currency, cost)
add_position(inv, number, currency, cost) ==
    [inv EXCEPT ![<<currency, cost>>] = @ + number]

\* Inventory.get_currency_units(currency)
get_currency_units(inv, currency) ==
    SumSeq([n \in 1..Len(CostOrder) |-> inv[<<currency, CostOrder[n]>>]])

\* the positions of the currency that are held at cost
CostedPositions(inv, currency) ==
    {k \in Keys : k[1] = currency /\ k[2] # NoCost /\ inv[k] # 0}

\* Position.is_negative_at_cost()
is_negative_at_cost(number, cost) == number < 0 /\ cost # NoCost

\* balance.get_balance_tolerance: the explicit tolerance, or the one inferred
\* from the precision of the amount, which is 0 for an integer amount
get_balance_tolerance(entry) ==
    IF entry.tolerance # NoTolerance THEN entry.tolerance[1] ELSE 0

\* a negation that leaves the units as they are
NegPositionKept(p) == p

\* Position.__neg__
NegPosition(p) == [number |-> -p.number, currency |-> p.currency, cost |-> p.cost]

\* a position that is given a cost
PositionAtCost(number, currency) ==
    [number |-> number, currency |-> currency, cost |-> "c2"]

\* Position.from_amounts(Amount(number, currency)): no cost
PositionFromAmounts(number, currency) ==
    [number |-> number, currency |-> currency, cost |-> NoCost]

\* a walk that does not remember the currencies it has checked
MarkPaddedDropped(lots, currency) == lots

\* padded_lots.add(check_amount.currency)
MarkPadded(lots, currency) == lots \cup {currency}

\* a synthesized transaction dated at its Balance entry
NewEntryAtBalance(pad, entry, diff_position, source_account) ==
    [Transaction("P",
        <<Posting(get_padded_account(pad), diff_position.number,
                  diff_position.currency, diff_position.cost, entry.lineno),
          Posting(source_account, NegPosition(diff_position).number,
                  NegPosition(diff_position).currency,
                  NegPosition(diff_position).cost, entry.lineno)>>)
     EXCEPT !.date = entry.date, !.lineno = pad.lineno, !.meta = pad.meta]

\* the transaction synthesized for the Balance entry under the pad marker
NewEntry(pad, entry, diff_position, source_account) ==
    [Transaction("P",
        <<Posting(get_padded_account(pad), diff_position.number,
                  diff_position.currency, diff_position.cost, entry.lineno),
          Posting(source_account, NegPosition(diff_position).number,
                  NegPosition(diff_position).currency,
                  NegPosition(diff_position).cost, entry.lineno)>>)
     EXCEPT !.date = pad.date, !.lineno = pad.lineno, !.meta = pad.meta]

---------------------------------------------------------------------------
\* The steps of the walk and of the merge, as functions of the state.

\* a test that pads a currency however often it was checked under the pad
MustPadAnyLot(entry, inv, active, lots) ==
    /\ Abs(get_currency_units(inv, entry.currency) - entry.number)
           > get_balance_tolerance(entry)
    /\ active # 0

\* the Balance branch of the walk: the check fails and is padded
MustPad(entry, inv, active, lots) ==
    /\ Abs(get_currency_units(inv, entry.currency) - entry.number)
           > get_balance_tolerance(entry)
    /\ active # 0
    /\ entry.currency \notin lots

\* one error for the currency when any of its positions is held at cost
CostErrorsOnce(entry, inv, active) ==
    IF CostedPositions(inv, entry.currency) = {} THEN <<>>
    ELSE <<PadError(entry.lineno, "Attempt to pad an entry with cost", active)>>

\* one error per position of the currency held at cost
CostErrors(entry, inv, active) ==
    [n \in 1..Cardinality(CostedPositions(inv, entry.currency)) |->
        PadError(entry.lineno, "Attempt to pad an entry with cost", active)]

\* a padding lot of the opposite sign: the balance minus the checked amount
DiffPositionOpposite(entry, inv) ==
    PositionFromAmounts(get_currency_units(inv, entry.currency) - entry.number,
                        entry.currency)

\* the padding lot: check_amount.number - balance_amount.number, without cost
DiffPosition(entry, inv) ==
    PositionFromAmounts(entry.number - get_currency_units(inv, entry.currency),
                        entry.currency)

\* new_entries[id(active_pad)].append(new_entry)
RecordEntry(ne, active, new_entry) == [ne EXCEPT ![active] = Append(@, new_entry)]

\* a merge that puts the new entries in front of their pad entry
EmitEntryBefore(es, i, ne, cfg) ==
    (IF is_pad_entry(es[i], cfg) THEN ne[i] ELSE <<>>) \o <<es[i]>>

\* what the loop of the merge appends to padded_entries for entry i
EmitEntry(es, i, ne, cfg) ==
    <<es[i]>> \o (IF is_pad_entry(es[i], cfg) THEN ne[i] ELSE <<>>)

\* a merge that reports every pad entry as unused
UnusedErrorAlways(es, i, ne, cfg) ==
    IF is_pad_entry(es[i], cfg) /\ GetUnusedErrors(cfg)
    THEN <<PadError(es[i].lineno, "Unused Pad entry", es[i].lineno)>>
    ELSE <<>>

\* what the loop of the merge appends to pad_errors for entry i
UnusedError(es, i, ne, cfg) ==
    IF is_pad_entry(es[i], cfg) /\ ne[i] = <<>> /\ GetUnusedErrors(cfg)
    THEN <<PadError(es[i].lineno, "Unused Pad entry", es[i].lineno)>>
    ELSE <<>>

---------------------------------------------------------------------------
\* The inputs.

\* the longest directive list drawn from all the directives of a family
MaxWide == 2

TxnA == Transaction("*", <<Posting(AcctA, 1, "USD", NoCost, 0)>>)
TxnACost == Transaction("*", <<Posting(AcctA, 1, "USD", "c1", 0)>>)
TxnAB == Transaction("*", <<Posting(AcctAB, 1, "USD", NoCost, 0)>>)

\* the directives of the longest reconciliation inputs
CoreShapes ==
    { TxnA, TxnACost, TxnAB,
      Balance(AcctA, 0, "USD", NoTolerance),
      Balance(AcctA, 1, "USD", NoTolerance),
      Balance(AcctA, 1, "EUR", NoTolerance),
      Balance(AcctAB, 1, "USD", NoTolerance),
      Balance(AcctS, 1, "USD", NoTolerance),
      PadExt(AcctA, NoAccount), PadExt(AcctA, AcctS), PadExt(AcctS, NoAccount) }

\* the directives of the reconciliation inputs
Shapes ==
    CoreShapes \cup { Balance(AcctA, 1, "USD", <<1>>), Pad(AcctA, AcctS) }

\* the configuration strings of the reconciliation inputs
ConfigStrs ==
    { NoConfigStr,
      ConfigStr(ConfigDict({"handle_default_pad_directives",
                            "generate_errors_on_unused_pad_entries"},
                           TRUE, TRUE, <<>>)),
      ConfigStr(ConfigDict({"default_pad_account"}, FALSE, FALSE,
                           <<Item(Regex(<<"Equity">>), <<AcctX>>)>>)) }

IncomeTemplate == <<"Income", "Pad", "{name}">>
ExpensesTemplate == <<"Expenses", "Pad", "{name}">>

\* the directives of the longest configuration inputs
CoreConfigShapes ==
    { PadExt(AcctA, NoAccount), PadExt(AcctA, AcctS),
      Balance(AcctA, 1, "USD", NoTolerance),
      Balance(AcctA, -1, "USD", NoTolerance),
      Balance(AcctA, -1, "EUR", NoTolerance),
      Pad(AcctA, AcctS),
      PadExtConfig(Regex(<<"Assets">>), AcctX, NoTemplate, NoTemplate),
      PadExtConfig(Regex(<<"Assets">>), NoTemplate, ExpensesTemplate,
                   IncomeTemplate),
      PadExtConfig(NoRegex, AcctX, NoTemplate, NoTemplate) }

\* the directives of the configuration inputs
ConfigShapes ==
    CoreConfigShapes \cup
    { PadExtConfig(ReInvalid, AcctX, NoTemplate, NoTemplate),
      PadExtConfig(Regex(<<"Assets">>), NoTemplate, NoTemplate, IncomeTemplate) }

\* the configuration strings of the configuration inputs
ConfigStrsAll ==
    { NoConfigStr, BadConfigStr,
      ConfigStr(ConfigDict({"handle_default_pad_directives",
                            "generate_errors_on_unused_pad_entries"},
                           TRUE, TRUE, <<>>)),
      ConfigStr(ConfigDict({"default_pad_account"}, FALSE, FALSE,
                           <<Item(Regex(<<"Equity">>), <<AcctX>>)>>)),
      ConfigStr(ConfigDict({"default_pad_account"}, FALSE, FALSE,
                           <<Item(ReInvalid, <<AcctX>>)>>)),
      ConfigStr(ConfigDict({"default_pad_account"}, FALSE, FALSE,
                           <<Item(Regex(<<"Assets">>), <<AcctX>>),
                             Item(ReAll, <<IncomeTemplate, ExpensesTemplate>>)>>)) }

\* the longest directive list of the rule inputs
MaxRules == 4

\* the directives of the rule inputs: a marker, its Balance entries and
\* pad-ext-config directives that match the padded account or do not
RuleShapes ==
    { PadExt(AcctA, NoAccount),
      Balance(AcctA, 1, "USD", NoTolerance),
      Balance(AcctA, -1, "EUR", NoTolerance),
      PadExtConfig(Regex(<<"Assets">>), AcctX, NoTemplate, NoTemplate),
      PadExtConfig(Regex(<<"Assets", "A">>), AcctS, NoTemplate, NoTemplate),
      PadExtConfig(ReAll, NoTemplate, ExpensesTemplate, IncomeTemplate),
      PadExtConfig(Regex(<<"Equity">>), AcctAB, NoTemplate, NoTemplate) }

\* the configuration strings of the rule inputs
RuleConfigStrs ==
    { NoConfigStr,
      ConfigStr(ConfigDict({"default_pad_account"}, FALSE, FALSE,
                           <<Item(Regex(<<"Assets">>), <<AcctAB>>),
                             Item(ReAll, <<IncomeTemplate, ExpensesTemplate>>)>>)) }

\* the longest directive list of the walk inputs
MaxWalk == 4

TxnACost2 == Transaction("*", <<Posting(AcctA, -1, "USD", "c2", 0)>>)

\* the directives of the walk inputs: markers of an account, of its descendant
\* and of another account, a native Pad, lots held at two costs, and Balance
\* entries
WalkShapes ==
    { PadExt(AcctA, NoAccount), PadExt(AcctAB, NoAccount), PadExt(AcctS, NoAccount),
      Pad(AcctA, AcctS), TxnACost, TxnACost2,
      Balance(AcctA, 1, "USD", NoTolerance),
      Balance(AcctS, 1, "USD", NoTolerance) }

\* the configuration strings of the walk inputs
WalkConfigStrs ==
    { NoConfigStr,
      ConfigStr(ConfigDict({"handle_default_pad_directives"}, TRUE, FALSE, <<>>)) }

\* the dates of a list of n directives: the first day, and every directive on
\* the day of the one before it or on the next day (the walk reads only the
\* order of the dates)
DateVectors(n) ==
    {d \in [1..n -> 1..n] :
        /\ n > 0 => d[1] = 1
        /\ \A i \in 1..(n - 1) : d[i + 1] \in {d[i], d[i] + 1}}

\* the directives as the loader hands them over: dated, and numbered by line
Dated(shapes, dates) ==
    [i \in 1..Len(shapes) |-> [shapes[i] EXCEPT !.date = dates[i], !.lineno = i]]

\* the shapes of the directive lists of n directives: all the directives of
\* the family for a short list, its core for a longer one
ShapesOf(core, shapes, n) == IF n <= MaxWide THEN shapes ELSE core

---------------------------------------------------------------------------
\* The state machine.

\* no call of balance_extended in a call of pad_extended
BxIdle ==
    /\ bx_entries = <<>>
    /\ bx_config_str = [given |-> FALSE]
    /\ bx_pc = "idle"
    /\ bx_config = [keys |-> {}]
    /\ balance_type_config = <<>>
    /\ existing_pad_keys = {}
    /\ account_currencies = <<>>
    /\ balance_extended_parsed_entries = <<>>
    /\ balance_dates_per_account = <<>>
    /\ bx_index = 0
    /\ bx_new_entries = <<>>
    /\ bx_errors = <<>>

\* no call of pad_extended in a call of balance_extended
PadIdle ==
    /\ entries = <<>>
    /\ config_str = NoConfigStr
    /\ pc = "idle"
    /\ outcome = "running"
    /\ aborted = FALSE
    /\ config = EmptyConfig
    /\ default_pad_account_config = <<>>
    /\ default_pad_acount_cache = {}
    /\ walk_queue = <<>>
    /\ account_ = NoAccount
    /\ postings = <<>>
    /\ active_pad = 0
    /\ padded_lots = {}
    /\ pad_balance = EmptyInventory
    /\ new_entries = <<>>
    /\ pad_errors = <<>>
    /\ padded_entries = <<>>

\* no call of currencies_used in a call of another plugin
CuIdle ==
    /\ cu_entries = <<>>
    /\ cu_config_str = [given |-> FALSE]
    /\ cu_pc = "idle"
    /\ cu_config = [keys |-> {}]
    /\ cu_account_currencies = <<>>
    /\ cu_index = 0
    /\ cu_new_entries = <<>>
    /\ cu_errors = <<>>

\* no call of group_pad_transactions in a call of another plugin
GpIdle ==
    /\ gp_entries = <<>>
    /\ gp_pc = "idle"
    /\ gp_index = 0
    /\ gp_result = <<>>
    /\ pad_transactions_by_groupping = <<>>

\* a call of pad_extended on directive lists and configuration strings
InitWith(core, shapes, config_strs) ==
    /\ \E n \in 0..MaxEntries :
          \E s \in [1..n -> ShapesOf(core, shapes, n)] :
              \E d \in DateVectors(n) : entries = Dated(s, d)
    /\ config_str \in config_strs
    /\ pc = "start"
    /\ outcome = "running"
    /\ aborted = FALSE
    /\ config = EmptyConfig
    /\ default_pad_account_config = <<>>
    /\ default_pad_acount_cache = {}
    /\ walk_queue = <<>>
    /\ account_ = NoAccount
    /\ postings = <<>>
    /\ active_pad = 0
    /\ padded_lots = {}
    /\ pad_balance = EmptyInventory
    /\ new_entries = <<>>
    /\ pad_errors = <<>>
    /\ padded_entries = <<>>
    /\ BxIdle
    /\ CuIdle
    /\ GpIdle

\* a call on reconciliation inputs
Init == InitWith(CoreShapes, Shapes, ConfigStrs)

\* a call on configuration inputs
InitConfig == InitWith(CoreConfigShapes, ConfigShapes, ConfigStrsAll)

\* a call on rule inputs, every directive on a day of its own
InitRules ==
    /\ \E n \in 0..MaxRules :
          \E s \in [1..n -> RuleShapes] : entries = Dated(s, [i \in 1..n |-> i])
    /\ config_str \in RuleConfigStrs
    /\ pc = "start"
    /\ outcome = "running"
    /\ aborted = FALSE
    /\ config = EmptyConfig
    /\ default_pad_account_config = <<>>
    /\ default_pad_acount_cache = {}
    /\ walk_queue = <<>>
    /\ account_ = NoAccount
    /\ postings = <<>>
    /\ active_pad = 0
    /\ padded_lots = {}
    /\ pad_balance = EmptyInventory
    /\ new_entries = <<>>
    /\ pad_errors = <<>>
    /\ padded_entries = <<>>
    /\ BxIdle
    /\ CuIdle
    /\ GpIdle

\* a call on walk inputs, every directive on a day of its own
InitWalk ==
    /\ \E n \in 0..MaxWalk :
          \E s \in [1..n -> WalkShapes] : entries = Dated(s, [i \in 1..n |-> i])
    /\ config_str \in WalkConfigStrs
    /\ pc = "start"
    /\ outcome = "running"
    /\ aborted = FALSE
    /\ config = EmptyConfig
    /\ default_pad_account_config = <<>>
    /\ default_pad_acount_cache = {}
    /\ walk_queue = <<>>
    /\ account_ = NoAccount
    /\ postings = <<>>
    /\ active_pad = 0
    /\ padded_lots = {}
    /\ pad_balance = EmptyInventory
    /\ new_entries = <<>>
    /\ pad_errors = <<>>
    /\ padded_entries = <<>>
    /\ BxIdle
    /\ CuIdle
    /\ GpIdle

\* return entries, pad_errors
Return(es, errors, early) ==
    /\ pc' = "done"
    /\ outcome' = "returned"
    /\ aborted' = early
    /\ padded_entries' = es
    /\ pad_errors' = errors

\* an exception leaves pad_extended
Raise ==
    /\ pc' = "done"
    /\ outcome' = "raised"
    /\ UNCHANGED <<aborted, padded_entries, pad_errors>>

\* pad_extended up to the loop over the padded accounts
Start ==
    /\ pc = "start"
    /\ UNCHANGED <<bx_vars, cu_vars, gp_vars>>
    /\ UNCHANGED <<entries, config_str, account_, postings, active_pad,
                   padded_lots, pad_balance, default_pad_acount_cache>>
    /\ IF config_str.given /\ ~literal_eval(config_str).ok
       THEN /\ Return(entries,
                      <<PadError(0, "Invalid configuration string", 0)>>, TRUE)
            /\ UNCHANGED <<config, default_pad_account_config, walk_queue,
                           new_entries>>
       ELSE LET cfg == IF config_str.given THEN literal_eval(config_str).value
                       ELSE EmptyConfig
                table == ParseDefaultTable(cfg)
                directives == get_directives_defined_config(entries)
            IN /\ config' = cfg
               /\ IF table.raised
                  THEN /\ Raise
                       /\ UNCHANGED <<default_pad_account_config, walk_queue,
                                      new_entries>>
                  ELSE IF directives.errors # <<>>
                  THEN /\ Return(entries, directives.errors, TRUE)
                       /\ UNCHANGED <<default_pad_account_config, walk_queue,
                                      new_entries>>
                  ELSE /\ default_pad_account_config'
                              = directives.mappings \o table.mappings
                       /\ walk_queue' = SortedPadAccounts(entries, cfg)
                       /\ new_entries' = [i \in PadIds(entries, cfg) |-> <<>>]
                       /\ pc' = "walk"
                       /\ UNCHANGED <<outcome, aborted, padded_entries, pad_errors>>

\* the head of the loop over the padded accounts
BeginWalk ==
    /\ pc = "walk"
    /\ UNCHANGED <<bx_vars, cu_vars, gp_vars>>
    /\ walk_queue # <<>>
    /\ account_' = Head(walk_queue)
    /\ walk_queue' = Tail(walk_queue)
    /\ postings' = Timeline(entries, Head(walk_queue))
    /\ active_pad' = 0
    /\ padded_lots' = {}
    /\ pad_balance' = EmptyInventory
    /\ pc' = IF Timeline(entries, Head(walk_queue)) = <<>> THEN "walk" ELSE "event"
    /\ UNCHANGED <<entries, config_str, outcome, aborted, config,
                   default_pad_account_config, default_pad_acount_cache,
                   new_entries, pad_errors, padded_entries>>

\* the Balance branch of the loop over the postings
BalanceEvent(entry) ==
    IF MustPad(entry, pad_balance, active_pad, padded_lots)
    THEN LET diff_position == DiffPosition(entry, pad_balance)
             source == get_source_account(entries[active_pad], diff_position.number,
                                          default_pad_account_config,
                                          default_pad_acount_cache)
             pos == pad_balance[<<diff_position.currency, diff_position.cost>>]
         IN IF source.raised
               \/ (pos # 0 /\ is_negative_at_cost(pos, diff_position.cost))
            THEN /\ Raise
                 /\ UNCHANGED <<postings, padded_lots, pad_balance, new_entries,
                                default_pad_acount_cache>>
            ELSE /\ pad_errors' = pad_errors
                                    \o CostErrors(entry, pad_balance, active_pad)
                 /\ default_pad_acount_cache' = source.cache
                 /\ new_entries' = RecordEntry(new_entries, active_pad,
                                      NewEntry(entries[active_pad], entry,
                                               diff_position, source.res))
                 /\ pad_balance' = add_position(pad_balance, diff_position.number,
                                      diff_position.currency, diff_position.cost)
                 /\ padded_lots' = MarkPadded(padded_lots, entry.currency)
                 /\ postings' = Tail(postings)
                 /\ pc' = IF Tail(postings) = <<>> THEN "walk" ELSE "event"
                 /\ UNCHANGED <<outcome, aborted, padded_entries>>
    ELSE /\ padded_lots' = MarkPadded(padded_lots, entry.currency)
         /\ postings' = Tail(postings)
         /\ pc' = IF Tail(postings) = <<>> THEN "walk" ELSE "event"
         /\ UNCHANGED <<outcome, aborted, padded_entries, pad_errors, pad_balance,
                        new_entries, default_pad_acount_cache>>

\* one iteration of the loop over the postings of the walked account
WalkEvent ==
    /\ pc = "event"
    /\ UNCHANGED <<bx_vars, cu_vars, gp_vars>>
    /\ postings # <<>>
    /\ UNCHANGED <<entries, config_str, config, default_pad_account_config,
                   walk_queue, account_>>
    /\ LET ev == Head(postings)
           entry == entries[ev.idx]
       IN IF ev.pidx > 0
          THEN /\ pad_balance' = add_position(pad_balance,
                                     entry.postings[ev.pidx].number,
                                     entry.postings[ev.pidx].currency,
                                     entry.postings[ev.pidx].cost)
               /\ postings' = Tail(postings)
               /\ pc' = IF Tail(postings) = <<>> THEN "walk" ELSE "event"
               /\ UNCHANGED <<outcome, aborted, padded_entries, pad_errors,
                              active_pad, padded_lots, new_entries,
                              default_pad_acount_cache>>
          ELSE IF is_pad_entry(entry, config)
          THEN /\ IF get_padded_account(entry) = account_
                  THEN active_pad' = ev.idx /\ padded_lots' = {}
                  ELSE UNCHANGED <<active_pad, padded_lots>>
               /\ postings' = Tail(postings)
               /\ pc' = IF Tail(postings) = <<>> THEN "walk" ELSE "event"
               /\ UNCHANGED <<outcome, aborted, padded_entries, pad_errors,
                              pad_balance, new_entries, default_pad_acount_cache>>
          ELSE IF entry.kind = "Balance"
          THEN BalanceEvent(entry) /\ UNCHANGED active_pad
          ELSE /\ postings' = Tail(postings)
               /\ pc' = IF Tail(postings) = <<>> THEN "walk" ELSE "event"
               /\ UNCHANGED <<outcome, aborted, padded_entries, pad_errors,
                              active_pad, padded_lots, pad_balance, new_entries,
                              default_pad_acount_cache>>

\* the merge: the new entries go right behind the pad entries that made them
InsertStep ==
    /\ pc = "walk"
    /\ UNCHANGED <<bx_vars, cu_vars, gp_vars>>
    /\ walk_queue = <<>>
    /\ Return(Flatten([i \in 1..Len(entries) |->
                          EmitEntry(entries, i, new_entries, config)]),
              pad_errors \o Flatten([i \in 1..Len(entries) |->
                          UnusedError(entries, i, new_entries, config)]),
              FALSE)
    /\ UNCHANGED <<entries, config_str, config, default_pad_account_config,
                   default_pad_acount_cache, walk_queue, account_, postings,
                   active_pad, padded_lots, pad_balance, new_entries>>

Next == Start \/ BeginWalk \/ WalkEvent \/ InsertStep

Spec == Init /\ [][Next]_vars

SpecConfig == InitConfig /\ [][Next]_vars

SpecRules == InitRules /\ [][Next]_vars

SpecWalk == InitWalk /\ [][Next]_vars

---------------------------------------------------------------------------
\* balance_extended: the values and the directives it reads and writes.

\* a value of a custom directive (ValueType.value), by its Python type; a str
\* is the sequence of its colon-separated components, as an account is
NoValue == [dtype |-> "none", str |-> <<>>, number |-> 0, currency |-> ""]
StrValue(s) == [NoValue EXCEPT !.dtype = "str", !.str = s]
AmountValue(number, currency) ==
    [NoValue EXCEPT !.dtype = "amount", !.number = number, !.currency = currency]
DecimalValue(number) == [NoValue EXCEPT !.dtype = "decimal", !.number = number]
IntValue(number) == [NoValue EXCEPT !.dtype = "int", !.number = number]

\* datetime.date
Date(year, month, day) == [year |-> year, month |-> month, day |-> day]

IsLeap(year) == (year % 4 = 0 /\ year % 100 # 0) \/ year % 400 = 0

DaysInMonth(year, month) ==
    IF month = 2 THEN (IF IsLeap(year) THEN 29 ELSE 28)
    ELSE IF month \in {4, 6, 9, 11} THEN 30 ELSE 31

\* datetime.date(year, month, day) raises ValueError for a date that is none
IsDate(year, month, day) ==
    month \in 1..12 /\ day >= 1 /\ day <= DaysInMonth(year, month)

DateLess(d1, d2) ==
    \/ d1.year < d2.year
    \/ d1.year = d2.year /\ d1.month < d2.month
    \/ d1.year = d2.year /\ d1.month = d2.month /\ d1.day < d2.day

\* date - datetime.timedelta(days=1)
DayBefore(d) ==
    IF d.day > 1 THEN Date(d.year, d.month, d.day - 1)
    ELSE IF d.month > 1
    THEN Date(d.year, d.month - 1, DaysInMonth(d.year, d.month - 1))
    ELSE Date(d.year - 1, 12, 31)

NoDate == Date(0, 0, 0)

BxNoMeta == [account_regex |-> NoRegex, balance_type |-> NoValue,
             pad_account |-> NoValue, generated_by |-> ""]

BxBlank == [kind |-> "Open", type |-> "", date |-> NoDate, lineno |-> 0,
            account |-> NoAccount, source_account |-> NoAccount,
            currencies |-> {}, values |-> <<>>, number |-> 0, currency |-> "",
            meta |-> BxNoMeta]

\* data.Open with its currencies
BxOpen(account, currencies) ==
    [BxBlank EXCEPT !.kind = "Open", !.account = account,
                    !.currencies = currencies]

\* data.Balance(meta, date, account, amount, None, None)
BxBalance(meta, date, account, number, currency) ==
    [BxBlank EXCEPT !.kind = "Balance", !.meta = meta, !.date = date,
                    !.account = account, !.number = number,
                    !.currency = currency]

\* data.Pad(meta, date, account, source_account)
BxPad(meta, date, account, source_account) ==
    [BxBlank EXCEPT !.kind = "Pad", !.meta = meta, !.date = date,
                    !.account = account, !.source_account = source_account]

\* data.Custom(meta, date, type, values)
BxCustom(meta, date, type, values) ==
    [BxBlank EXCEPT !.kind = "Custom", !.meta = meta, !.date = date,
                    !.type = type, !.values = values]

\* custom "balance-ext" <values>, with an optional pad_account metadata key
BalanceExt(values, pad_account) ==
    BxCustom([BxNoMeta EXCEPT !.pad_account = pad_account], NoDate,
             "balance-ext", values)

\* custom "balance-ext-config" with its metadata keys
BalanceExtConfig(regex, balance_type) ==
    BxCustom([BxNoMeta EXCEPT !.account_regex = regex,
                              !.balance_type = balance_type],
             NoDate, "balance-ext-config", <<>>)

\* BalanceType and BALANCE_TYPE_MAPPINGS
BalanceTypeValues == {"regular", "full", "padded", "full-padded"}

BALANCE_TYPE_MAPPINGS ==
    [k \in {"", "F", "~", "F~", "~F", "!", "!F", "F!"} |->
        IF k \in {"", "!"} THEN "regular"
        ELSE IF k \in {"F", "!F", "F!"} THEN "full"
        ELSE IF k = "~" THEN "padded" ELSE "full-padded"]

\* s in BALANCE_TYPE_MAPPINGS, s in BALANCE_TYPE_MAPPINGS.values()
IsMappingKey(s) == Len(s) = 1 /\ s[1] \in DOMAIN BALANCE_TYPE_MAPPINGS
IsTypeValue(s) == Len(s) = 1 /\ s[1] \in BalanceTypeValues

\* the balance-ext configuration dict: the keys it holds and their values
BxConfigDict(keys, default_balance_type, default_pad_type, preferred_pad_dates) ==
    [keys |-> keys, default_balance_type |-> default_balance_type,
     default_pad_type |-> default_pad_type,
     preferred_pad_dates |-> preferred_pad_dates]

BxEmptyConfig == BxConfigDict({}, NoValue, "", <<>>)

BxNoConfigStr == [given |-> FALSE, literal |-> FALSE, value |-> BxEmptyConfig]
BxBadConfigStr == [given |-> TRUE, literal |-> FALSE, value |-> BxEmptyConfig]
BxConfigStr(dict) == [given |-> TRUE, literal |-> TRUE, value |-> dict]

\* config.get("default_balance_type", BalanceType.REGULAR.value)
GetDefaultBalanceType(cfg) ==
    IF "default_balance_type" \in cfg.keys THEN cfg.default_balance_type
    ELSE StrValue(<<"regular">>)

\* config.get('default_pad_type', 'pad-ext')
GetDefaultPadType(cfg) ==
    IF "default_pad_type" \in cfg.keys THEN cfg.default_pad_type ELSE "pad-ext"

\* config.get('preferred_pad_dates'), the empty sequence for None
GetPreferredPadDates(cfg) ==
    IF "preferred_pad_dates" \in cfg.keys THEN cfg.preferred_pad_dates ELSE <<>>

\* BalanceExtendedError(source, message, entry): entry is a line number
BalanceExtendedError(message, entry) == [message |-> message, entry |-> entry]

IsBalanceExt(entry) == entry.kind = "Custom" /\ entry.type = "balance-ext"
IsBalanceExtConfig(entry) ==
    entry.kind = "Custom" /\ entry.type = "balance-ext-config"

\* BalanceTypeConfig(regex, balance_type)
BalanceTypeConfig(regex, balance_type) ==
    [regex |-> regex, balance_type |-> balance_type]

\* one iteration of the loop of get_directives_defined_config
BxParseConfigEntry(entry) ==
    LET balance_type == entry.meta.balance_type
        mapped == IF IsMappingKey(balance_type.str)
                  THEN <<BALANCE_TYPE_MAPPINGS[balance_type.str[1]]>>
                  ELSE balance_type.str
    IN IF ~entry.meta.account_regex.present
       THEN [mappings |-> <<>>,
             errors |-> <<BalanceExtendedError(
                 "account_regex is required in balance-ext-config entry",
                 entry.lineno)>>]
       ELSE IF ~entry.meta.account_regex.valid
       THEN [mappings |-> <<>>,
             errors |-> <<BalanceExtendedError("Invalid account_regex",
                                               entry.lineno)>>]
       ELSE IF balance_type.dtype # "str"
       THEN [mappings |-> <<>>,
             errors |-> <<BalanceExtendedError(
                 "balance_type is required in balance-ext-config entry",
                 entry.lineno)>>]
       ELSE IF ~IsTypeValue(mapped)
       THEN [mappings |-> <<>>,
             errors |-> <<BalanceExtendedError("Invalid balance_type",
                                               entry.lineno)>>]
       ELSE [mappings |-> <<BalanceTypeConfig(entry.meta.account_regex,
                                              mapped[1])>>,
             errors |-> <<>>]

RECURSIVE BxParseConfigEntries(_)
BxParseConfigEntries(es) ==
    IF es = <<>> THEN [mappings |-> <<>>, errors |-> <<>>]
    ELSE LET first == BxParseConfigEntry(Head(es))
             rest == BxParseConfigEntries(Tail(es))
         IN [mappings |-> first.mappings \o rest.mappings,
             errors |-> first.errors \o rest.errors]

\* balance_extended.get_directives_defined_config(entries, errors)
bx_get_directives_defined_config(es) ==
    BxParseConfigEntries(Reversed(SelectSeq(es, IsBalanceExtConfig)))

\* BalanceExtended(date, account, balance_type, amount_values)
BalanceExtended(date, account, balance_type, amount_values) ==
    [date |-> date, account |-> account, balance_type |-> balance_type,
     amount_values |-> amount_values]

NoBalanceExtended == BalanceExtended(NoDate, NoAccount, "", <<>>)

\* the loop of parse_balance_extended_entry over balance_type_config
RECURSIVE FirstBalanceType(_, _, _)
FirstBalanceType(mappings, account, default) ==
    IF mappings = <<>> THEN default
    ELSE IF ReMatch(Head(mappings).regex, account)
    THEN StrValue(<<Head(mappings).balance_type>>)
    ELSE FirstBalanceType(Tail(mappings), account, default)

\* parse_balance_extended_entry: the parsed directive, or the error it raises
parse_balance_extended_entry(custom_entry, cfg, mappings) ==
    LET values == custom_entry.values
        type_given == /\ values # <<>>
                      /\ values[1].dtype = "str"
                      /\ (IsMappingKey(values[1].str) \/ IsTypeValue(values[1].str))
        min_args == IF type_given THEN 3 ELSE 2
        account_index == IF type_given THEN 2 ELSE 1
        Fail(message) ==
            [raised |-> TRUE, parsed |-> NoBalanceExtended,
             error |-> BalanceExtendedError(message, custom_entry.lineno)]
    IN IF Len(values) < min_args
       THEN Fail("balance-ext requires at least [balance_type] account amount1")
       ELSE IF values[account_index].dtype # "str"
       THEN Fail("Second argument to balance-ext must be an account name (string)")
       ELSE LET account == values[account_index].str
                balance_type_str ==
                    IF type_given
                    THEN (IF IsMappingKey(values[1].str)
                          THEN StrValue(<<BALANCE_TYPE_MAPPINGS[values[1].str[1]]>>)
                          ELSE values[1])
                    ELSE FirstBalanceType(mappings, account,
                                          GetDefaultBalanceType(cfg))
            IN IF balance_type_str.dtype # "str"
               THEN Fail("balance_ext default_balance_type must be a string")
               ELSE IF ~IsTypeValue(balance_type_str.str)
               THEN Fail("Invalid balance type")
               ELSE [raised |-> FALSE,
                     parsed |-> BalanceExtended(custom_entry.date, account,
                                    balance_type_str.str[1],
                                    SubSeq(values, account_index + 1, Len(values))),
                     error |-> BalanceExtendedError("", 0)]

\* build_account_currencies_mapping: the currencies of the last Open directive
\* of each account that has one
RECURSIVE build_account_currencies_mapping(_)
build_account_currencies_mapping(es) ==
    IF es = <<>> THEN <<>>
    ELSE LET front == build_account_currencies_mapping(SubSeq(es, 1, Len(es) - 1))
             entry == es[Len(es)]
         IN IF entry.kind = "Open"
            THEN [a \in DOMAIN front \cup {entry.account} |->
                     IF a = entry.account THEN entry.currencies ELSE front[a]]
            ELSE front

\* account_currencies.get(account, set())
DeclaredCurrencies(account_currencies_, account) ==
    IF account \in DOMAIN account_currencies_
    THEN account_currencies_[account] ELSE {}

\* PadKey(date, account)
PadKey(date, account) == [date |-> date, account |-> account]

\* the pad keys of the Pad and pad-ext directives of the input
InputPadKeys(es) ==
    {PadKey(es[i].date, es[i].account) : i \in {j \in DOMAIN es : es[j].kind = "Pad"}}
    \cup {PadKey(es[i].date, es[i].values[1].str) :
            i \in {j \in DOMAIN es : /\ es[j].kind = "Custom"
                                     /\ es[j].type = "pad-ext"
                                     /\ es[j].values # <<>>
                                     /\ es[j].values[1].dtype = "str"}}

\* the loop that parses the balance-ext directives: what it parsed, by the
\* line of the directive, and the errors it caught, in order
RECURSIVE ParseBalanceExtEntries(_, _, _)
ParseBalanceExtEntries(es, cfg, mappings) ==
    IF es = <<>> THEN [parsed |-> <<>>, errors |-> <<>>]
    ELSE LET front == ParseBalanceExtEntries(SubSeq(es, 1, Len(es) - 1), cfg, mappings)
             entry == es[Len(es)]
             r == parse_balance_extended_entry(entry, cfg, mappings)
         IN IF ~IsBalanceExt(entry) THEN front
            ELSE IF r.raised
            THEN [parsed |-> front.parsed, errors |-> Append(front.errors, r.error)]
            ELSE [parsed |-> [l \in DOMAIN front.parsed \cup {entry.lineno} |->
                                 IF l = entry.lineno THEN r.parsed
                                 ELSE front.parsed[l]],
                  errors |-> front.errors]

\* list.sort() of a list of dates
RECURSIVE InsertDate(_, _)
InsertDate(sorted, d) ==
    IF sorted = <<>> THEN <<d>>
    ELSE IF DateLess(d, Head(sorted)) THEN <<d>> \o sorted
    ELSE <<Head(sorted)>> \o InsertDate(Tail(sorted), d)

RECURSIVE SortDates(_)
SortDates(ds) ==
    IF ds = <<>> THEN <<>>
    ELSE InsertDate(SortDates(SubSeq(ds, 1, Len(ds) - 1)), ds[Len(ds)])

\* the dates of the Balance directives of the account, then those of its
\* parsed balance-ext directives, sorted
BalanceDates(es, parsed, account) ==
    LET ofBalance == SelectSeq(es, LAMBDA e : e.kind = "Balance" /\ e.account = account)
        ofParsed == SelectSeq(es, LAMBDA e : /\ IsBalanceExt(e)
                                             /\ e.lineno \in DOMAIN parsed
                                             /\ parsed[e.lineno].account = account)
    IN SortDates([n \in 1..Len(ofBalance) |-> ofBalance[n].date]
                 \o [n \in 1..Len(ofParsed) |-> ofParsed[n].date])

\* balance_dates_per_account as the three loops leave it
BuildBalanceDates(es, parsed) ==
    LET accounts == {es[i].account : i \in {j \in DOMAIN es : es[j].kind = "Balance"}}
                    \cup {parsed[l].account : l \in DOMAIN parsed}
    IN [a \in accounts |-> BalanceDates(es, parsed, a)]

\* bisect.bisect_right(balance_dates, date)
RECURSIVE bisect_right(_, _)
bisect_right(ds, d) ==
    IF ds = <<>> \/ DateLess(d, Head(ds)) THEN 0
    ELSE 1 + bisect_right(Tail(ds), d)

\* reversed(sorted(preferred_pad_dates))
RECURSIVE SortedDescending(_)
SortedDescending(ns) ==
    IF ns = <<>> THEN <<>>
    ELSE LET m == CHOOSE k \in DOMAIN ns : \A j \in DOMAIN ns : ns[j] <= ns[k]
         IN <<ns[m]>> \o SortedDescending(
                 SubSeq(ns, 1, m - 1) \o SubSeq(ns, m + 1, Len(ns)))

\* the two loops of get_pad_date over the candidate (month, day) pairs
RECURSIVE ScanPadDates(_, _, _, _)
ScanPadDates(cands, date, has_prev, prev_balance_date) ==
    IF cands = <<>> THEN [raised |-> FALSE, date |-> DayBefore(date)]
    ELSE LET c == Head(cands)
             candidate_date == Date(date.year, c[1], c[2])
         IN IF ~IsDate(date.year, c[1], c[2])
            THEN [raised |-> TRUE, date |-> NoDate]
            ELSE IF DateLess(candidate_date, date)
            THEN (IF ~has_prev THEN [raised |-> TRUE, date |-> NoDate]
                  ELSE IF ~DateLess(candidate_date, prev_balance_date)
                  THEN [raised |-> FALSE, date |-> candidate_date]
                  ELSE ScanPadDates(Tail(cands), date, has_prev, prev_balance_date))
            ELSE ScanPadDates(Tail(cands), date, has_prev, prev_balance_date)

\* get_pad_date(date, balance_dates, config); raised stands for the ValueError
\* of datetime.date and the TypeError of a comparison with None
get_pad_date(date, balance_dates, cfg) ==
    LET preferred_pad_dates == GetPreferredPadDates(cfg)
        index == bisect_right(balance_dates, date)
        days == SortedDescending(preferred_pad_dates)
        cands == [n \in 1..Len(days) |-> <<date.month, days[n]>>]
                 \o [n \in 1..Len(days) |-> <<date.month - 1, days[n]>>]
    IN IF preferred_pad_dates = <<>>
       THEN [raised |-> FALSE, date |-> DayBefore(date)]
       ELSE ScanPadDates(cands, date, index > 0,
                         IF index > 0 THEN balance_dates[index] ELSE NoDate)

\* sorted(currencies_to_assert): the currencies in ascending order
CurrencyOrder == <<"EUR", "USD">>

\* the loop over amount_values: the explicit amounts and the errors
RECURSIVE ExplicitCurrencies(_, _)
ExplicitCurrencies(amount_values, lineno) ==
    IF amount_values = <<>> THEN [amounts |-> <<>>, errors |-> <<>>]
    ELSE LET front == ExplicitCurrencies(
                          SubSeq(amount_values, 1, Len(amount_values) - 1), lineno)
             amount_obj == amount_values[Len(amount_values)]
         IN IF amount_obj.dtype = "decimal" /\ amount_obj.number = 0 THEN front
            ELSE IF amount_obj.dtype # "amount"
            THEN [amounts |-> front.amounts,
                  errors |-> Append(front.errors,
                                BalanceExtendedError("Expected Amount object", lineno))]
            ELSE [amounts |-> [c \in DOMAIN front.amounts \cup {amount_obj.currency} |->
                                  IF c = amount_obj.currency THEN amount_obj.number
                                  ELSE front.amounts[c]],
                  errors |-> front.errors]

\* meta.copy(): the new directive keeps the line of the directive it is made from
FromLine(entry, custom_entry) == [entry EXCEPT !.lineno = custom_entry.lineno]

\* a pad entry for every padded directive, whatever the pad keys hold
PadOfBalanceAlways(parsed_entry, custom_entry, pad_date, pad_keys, cfg) ==
    LET pad_account == custom_entry.meta.pad_account
        pad_key == PadKey(pad_date, parsed_entry.account)
        meta == [custom_entry.meta EXCEPT !.generated_by = "balance-ext"]
    IN IF GetDefaultPadType(cfg) = "pad-ext"
       THEN [new_entries |-> <<FromLine(BxCustom(meta, pad_date, "pad-ext",
                                            <<StrValue(parsed_entry.account)>>),
                                        custom_entry)>>,
             errors |-> <<>>, pad_keys |-> pad_keys \cup {pad_key}]
       ELSE IF pad_account.dtype # "str"
       THEN [new_entries |-> <<>>,
             errors |-> <<BalanceExtendedError(
                 "pad_account metadata must be set when 'default_pad_type' is 'pad'",
                 custom_entry.lineno)>>,
             pad_keys |-> pad_keys \cup {pad_key}]
       ELSE [new_entries |-> <<FromLine(BxPad(meta, pad_date, parsed_entry.account,
                                              pad_account.str), custom_entry)>>,
             errors |-> <<>>, pad_keys |-> pad_keys \cup {pad_key}]

\* the pad entry of process_balance and what the branch leaves behind
PadOfBalance(parsed_entry, custom_entry, pad_date, pad_keys, cfg) ==
    LET pad_account == custom_entry.meta.pad_account
        pad_key == PadKey(pad_date, parsed_entry.account)
        meta == [custom_entry.meta EXCEPT !.generated_by = "balance-ext"]
    IN IF pad_key \in pad_keys
       THEN [new_entries |-> <<>>, errors |-> <<>>, pad_keys |-> pad_keys]
       ELSE IF GetDefaultPadType(cfg) = "pad-ext"
       THEN [new_entries |-> <<FromLine(BxCustom(meta, pad_date, "pad-ext",
                                            <<StrValue(parsed_entry.account)>>),
                                        custom_entry)>>,
             errors |-> <<>>, pad_keys |-> pad_keys \cup {pad_key}]
       ELSE IF pad_account.dtype # "str"
       THEN [new_entries |-> <<>>,
             errors |-> <<BalanceExtendedError(
                 "pad_account metadata must be set when 'default_pad_type' is 'pad'",
                 custom_entry.lineno)>>,
             pad_keys |-> pad_keys \cup {pad_key}]
       ELSE [new_entries |-> <<FromLine(BxPad(meta, pad_date, parsed_entry.account,
                                              pad_account.str), custom_entry)>>,
             errors |-> <<>>, pad_keys |-> pad_keys \cup {pad_key}]

\* Balance directives for the explicit amounts only, whatever the type
BalancesOfExplicit(parsed_entry, custom_entry, account_currencies_) ==
    LET explicit_currencies ==
            ExplicitCurrencies(parsed_entry.amount_values, custom_entry.lineno).amounts
        sorted == SelectSeq(CurrencyOrder, LAMBDA c : c \in DOMAIN explicit_currencies)
    IN [n \in 1..Len(sorted) |->
           FromLine(BxBalance(custom_entry.meta, custom_entry.date,
                              parsed_entry.account, explicit_currencies[sorted[n]],
                              sorted[n]), custom_entry)]

\* the Balance directives of process_balance, in ascending currency order
BalancesOf(parsed_entry, custom_entry, account_currencies_) ==
    LET explicit_currencies ==
            ExplicitCurrencies(parsed_entry.amount_values, custom_entry.lineno).amounts
        currencies_to_assert ==
            DOMAIN explicit_currencies
            \cup (IF parsed_entry.balance_type \in {"full", "full-padded"}
                  THEN DeclaredCurrencies(account_currencies_, parsed_entry.account)
                  ELSE {})
        sorted == SelectSeq(CurrencyOrder, LAMBDA c : c \in currencies_to_assert)
    IN [n \in 1..Len(sorted) |->
           FromLine(BxBalance(custom_entry.meta, custom_entry.date,
                              parsed_entry.account,
                              IF sorted[n] \in DOMAIN explicit_currencies
                              THEN explicit_currencies[sorted[n]] ELSE 0,
                              sorted[n]), custom_entry)]

\* a process_balance that puts the pad entry behind the Balance directives
process_balance_pad_last(parsed_entry, custom_entry, currencies_of, pad_keys, balance_dates, cfg) ==
    LET padded == parsed_entry.balance_type \in {"padded", "full-padded"}
        pad_date == get_pad_date(custom_entry.date,
                                 balance_dates[parsed_entry.account], cfg)
        pad == IF padded /\ ~pad_date.raised
               THEN PadOfBalance(parsed_entry, custom_entry, pad_date.date,
                                 pad_keys, cfg)
               ELSE [new_entries |-> <<>>, errors |-> <<>>, pad_keys |-> pad_keys]
    IN [raised |-> padded /\ pad_date.raised,
        new_entries |-> BalancesOf(parsed_entry, custom_entry, currencies_of)
                        \o pad.new_entries,
        errors |-> pad.errors
                   \o ExplicitCurrencies(parsed_entry.amount_values,
                                         custom_entry.lineno).errors,
        pad_keys |-> pad.pad_keys]

\* process_balance: the new entries, the errors and existing_pad_keys as the
\* call leaves it; raised when get_pad_date raises
process_balance(parsed_entry, custom_entry, currencies_of, pad_keys, balance_dates, cfg) ==
    LET padded == parsed_entry.balance_type \in {"padded", "full-padded"}
        pad_date == get_pad_date(custom_entry.date,
                                 balance_dates[parsed_entry.account], cfg)
        pad == IF padded /\ ~pad_date.raised
               THEN PadOfBalance(parsed_entry, custom_entry, pad_date.date,
                                 pad_keys, cfg)
               ELSE [new_entries |-> <<>>, errors |-> <<>>, pad_keys |-> pad_keys]
    IN [raised |-> padded /\ pad_date.raised,
        new_entries |-> pad.new_entries
                        \o BalancesOf(parsed_entry, custom_entry, currencies_of),
        errors |-> pad.errors
                   \o ExplicitCurrencies(parsed_entry.amount_values,
                                         custom_entry.lineno).errors,
        pad_keys |-> pad.pad_keys]

---------------------------------------------------------------------------
\* balance_extended: the inputs.

\* the calendar date of the n-th day of the input: the last day of January
\* 2015 and the days of February behind it
DateOf(n) == IF n = 1 THEN Date(2015, 1, 31) ELSE Date(2015, 2, n - 1)

\* the directives as the loader hands them over: dated, and numbered by line
BxDated(shapes, dates) ==
    [i \in 1..Len(shapes) |->
        [shapes[i] EXCEPT !.date = DateOf(dates[i]), !.lineno = i]]

Full == StrValue(<<"full">>)
Padded == StrValue(<<"padded">>)
FullPadded == StrValue(<<"full-padded">>)

\* the directives of the longest inputs of balance_extended
CoreBalanceShapes ==
    { BxOpen(AcctA, {"USD", "EUR"}),
      BxBalance(BxNoMeta, NoDate, AcctA, 1, "USD"),
      BxCustom(BxNoMeta, NoDate, "other-custom", <<StrValue(<<"some">>)>>),
      BalanceExt(<<Full, StrValue(AcctA), AmountValue(1, "USD")>>, NoValue),
      BalanceExt(<<Padded, StrValue(AcctA), AmountValue(1, "USD")>>, NoValue),
      BalanceExt(<<Padded, StrValue(AcctA), StrValue(AcctS),
                   AmountValue(1, "USD")>>, NoValue),
      BalanceExt(<<FullPadded, StrValue(AcctA), AmountValue(1, "EUR")>>,
                 StrValue(AcctS)),
      BalanceExt(<<Full, StrValue(AcctA)>>, NoValue),
      BalanceExt(<<StrValue(<<"invalid">>), StrValue(AcctA),
                   AmountValue(1, "USD")>>, NoValue),
      BalanceExt(<<Full, StrValue(AcctA), AmountValue(1, "USD"),
                   DecimalValue(2)>>, NoValue) }

\* the directives of the inputs of balance_extended; an account has one Open
\* directive
BalanceShapes ==
    CoreBalanceShapes \cup
    { BxOpen(AcctS, {}),
      BalanceExt(<<Full, StrValue(AcctS), AmountValue(1, "USD")>>, NoValue),
      BxPad(BxNoMeta, NoDate, AcctA, AcctS),
      BxCustom(BxNoMeta, NoDate, "pad-ext", <<StrValue(AcctA)>>),
      BalanceExt(<<StrValue(AcctA), AmountValue(2, "USD"),
                   AmountValue(1, "EUR")>>, NoValue),
      BalanceExt(<<StrValue(<<"~">>), StrValue(AcctA), AmountValue(1, "USD"),
                   DecimalValue(0)>>, NoValue),
      BalanceExt(<<Full, IntValue(123), AmountValue(1, "USD")>>, NoValue),
      BalanceExt(<<IntValue(123), StrValue(AcctA)>>, NoValue),
      BalanceExtConfig(Regex(<<"Assets">>), StrValue(<<"F">>)),
      BalanceExtConfig(NoRegex, Full),
      BalanceExtConfig(Regex(<<"Assets">>), StrValue(<<"invalid">>)) }

\* the configuration strings of the longest inputs of balance_extended
CoreBalanceConfigStrs ==
    { BxNoConfigStr, BxBadConfigStr,
      BxConfigStr(BxConfigDict({"default_pad_type"}, NoValue, "pad", <<>>)) }

\* the configuration strings of the inputs of balance_extended
BalanceConfigStrs ==
    CoreBalanceConfigStrs \cup
    { BxConfigStr(BxConfigDict({"default_balance_type"}, FullPadded, "", <<>>)),
      BxConfigStr(BxConfigDict({"default_balance_type"}, IntValue(1), "", <<>>)),
      BxConfigStr(BxConfigDict({"preferred_pad_dates"}, NoValue, "", <<1, 31>>)),
      BxConfigStr(BxConfigDict({"preferred_pad_dates"}, NoValue, "", <<1>>)) }

---------------------------------------------------------------------------
\* balance_extended as a state machine.

\* the variables of a call of balance_extended before it starts
BxInitial ==
    /\ bx_config = BxEmptyConfig
    /\ balance_type_config = <<>>
    /\ existing_pad_keys = {}
    /\ account_currencies = <<>>
    /\ balance_extended_parsed_entries = <<>>
    /\ balance_dates_per_account = <<>>
    /\ bx_index = 0
    /\ bx_new_entries = <<>>
    /\ bx_errors = <<>>

\* a call of balance_extended
InitBalance ==
    /\ \E n \in 0..MaxEntries :
          /\ \E s \in [1..n -> ShapesOf(CoreBalanceShapes, BalanceShapes, n)] :
                \E d \in DateVectors(n) : bx_entries = BxDated(s, d)
          /\ bx_config_str \in ShapesOf(CoreBalanceConfigStrs, BalanceConfigStrs, n)
    /\ bx_pc = "start"
    /\ BxInitial
    /\ PadIdle
    /\ CuIdle
    /\ GpIdle

\* return entries, errors
BxAbort(errs) ==
    /\ bx_pc' = "aborted"
    /\ bx_errors' = errs
    /\ UNCHANGED <<balance_type_config, existing_pad_keys, account_currencies,
                   balance_extended_parsed_entries, balance_dates_per_account,
                   bx_index>>

\* balance_extended up to the loop that expands the directives
BxStart ==
    /\ bx_pc = "start"
    /\ UNCHANGED <<bx_entries, bx_config_str, bx_new_entries>>
    /\ UNCHANGED <<pad_vars, cu_vars, gp_vars>>
    /\ IF bx_config_str.given /\ ~bx_config_str.literal
       THEN /\ BxAbort(<<BalanceExtendedError("Invalid configuration string", 0)>>)
            /\ UNCHANGED bx_config
       ELSE LET cfg == IF bx_config_str.given THEN bx_config_str.value
                       ELSE BxEmptyConfig
                directives == bx_get_directives_defined_config(bx_entries)
                parsed == ParseBalanceExtEntries(bx_entries, cfg, directives.mappings)
            IN /\ bx_config' = cfg
               /\ IF directives.errors # <<>>
                  THEN BxAbort(directives.errors)
                  ELSE /\ balance_type_config' = directives.mappings
                       /\ existing_pad_keys' = InputPadKeys(bx_entries)
                       /\ account_currencies'
                              = build_account_currencies_mapping(bx_entries)
                       /\ balance_extended_parsed_entries' = parsed.parsed
                       /\ bx_errors' = parsed.errors
                       /\ balance_dates_per_account'
                              = BuildBalanceDates(bx_entries, parsed.parsed)
                       /\ bx_index' = 1
                       /\ bx_pc' = "expand"

\* one iteration of the loop that builds new_entries
BxExpand ==
    /\ bx_pc = "expand"
    /\ bx_index <= Len(bx_entries)
    /\ UNCHANGED <<bx_entries, bx_config_str, bx_config, balance_type_config,
                   account_currencies, balance_extended_parsed_entries,
                   balance_dates_per_account>>
    /\ UNCHANGED <<pad_vars, cu_vars, gp_vars>>
    /\ LET entry == bx_entries[bx_index]
           r == process_balance(balance_extended_parsed_entries[entry.lineno],
                                entry, account_currencies, existing_pad_keys,
                                balance_dates_per_account, bx_config)
       IN IF ~IsBalanceExt(entry)
          THEN /\ bx_new_entries' = Append(bx_new_entries, entry)
               /\ bx_index' = bx_index + 1
               /\ UNCHANGED <<bx_pc, bx_errors, existing_pad_keys>>
          ELSE IF entry.lineno \notin DOMAIN balance_extended_parsed_entries
          THEN /\ bx_index' = bx_index + 1
               /\ UNCHANGED <<bx_pc, bx_new_entries, bx_errors, existing_pad_keys>>
          ELSE IF r.raised
          THEN /\ bx_pc' = "raised"
               /\ UNCHANGED <<bx_index, bx_new_entries, bx_errors, existing_pad_keys>>
          ELSE /\ bx_new_entries' = bx_new_entries \o r.new_entries
               /\ bx_errors' = bx_errors \o r.errors
               /\ existing_pad_keys' = r.pad_keys
               /\ bx_index' = bx_index + 1
               /\ UNCHANGED bx_pc

\* return new_entries, errors
BxReturn ==
    /\ bx_pc = "expand"
    /\ bx_index > Len(bx_entries)
    /\ bx_pc' = "returned"
    /\ UNCHANGED <<bx_entries, bx_config_str, bx_config, balance_type_config,
                   existing_pad_keys, account_currencies,
                   balance_extended_parsed_entries, balance_dates_per_account,
                   bx_index, bx_new_entries, bx_errors>>
    /\ UNCHANGED <<pad_vars, cu_vars, gp_vars>>

NextBalance == BxStart \/ BxExpand \/ BxReturn

SpecBalance == InitBalance /\ [][NextBalance]_vars

\* the directive list that the call returned
BxReturned == IF bx_pc = "aborted" THEN bx_entries ELSE bx_new_entries

---------------------------------------------------------------------------
\* currencies_used: the directives, the configuration and the state machine.

\* entry.currencies of an Open directive: None, or a list of currencies
NoCurrencies == [given |-> FALSE, list |-> <<>>]
CurrencyList(list) == [given |-> TRUE, list |-> list]

\* the metadata of a directive: the value of its currencies_used key, a
\* sorted sequence of currencies joined by ", ", and <<>> for no such key
CuNoMeta == [currencies_used |-> <<>>]

CuBlank == [kind |-> "Open", date |-> 0, lineno |-> 0, account |-> NoAccount,
            source_account |-> NoAccount, currencies |-> NoCurrencies,
            currency |-> "", postings |-> <<>>, meta |-> CuNoMeta]

CuOpen(account, currencies) ==
    [CuBlank EXCEPT !.kind = "Open", !.account = account, !.currencies = currencies]

\* a transaction: its postings are pairs of an account and a currency
CuPosting(account, currency) == [account |-> account, currency |-> currency]
CuTransaction(posts) == [CuBlank EXCEPT !.kind = "Transaction", !.postings = posts]

CuPad(account, source_account) ==
    [CuBlank EXCEPT !.kind = "Pad", !.account = account,
                    !.source_account = source_account]

CuBalance(account, currency) ==
    [CuBlank EXCEPT !.kind = "Balance", !.account = account, !.currency = currency]

\* a dict literal of the configuration string
CuConfigDict(keys, extend_open, extend_from_pad) ==
    [keys |-> keys, extend_open_directives |-> extend_open,
     extend_from_pad_directives |-> extend_from_pad]

CuEmptyConfig == CuConfigDict({}, FALSE, FALSE)
CuNoConfigStr == [given |-> FALSE, literal |-> FALSE, value |-> CuEmptyConfig]
CuBadConfigStr == [given |-> TRUE, literal |-> FALSE, value |-> CuEmptyConfig]
CuConfigStr(dict) == [given |-> TRUE, literal |-> TRUE, value |-> dict]

\* config.get('extend_open_directives', False)
GetExtendOpenDirectives(cfg) ==
    IF "extend_open_directives" \in cfg.keys THEN cfg.extend_open_directives
    ELSE FALSE

\* CurrenciesUsedError(source, message, entry): entry is a line number, 0 is None
CurrenciesUsedError(message, entry) == [message |-> message, entry |-> entry]

\* sorted(list(used_currencies))
SortedCurrencies(used) == SelectSeq(CurrencyOrder, LAMBDA c : c \in used)

\* the first pass: the currencies of the postings of every account
CollectCurrencies(es) ==
    LET posts == UNION {{es[i].postings[k] : k \in DOMAIN es[i].postings} :
                          i \in {j \in DOMAIN es : es[j].kind = "Transaction"}}
    IN [a \in {q.account : q \in posts} |->
           {q.currency : q \in {r \in posts : r.account = a}}]

\* account_currencies.get(account, set())
UsedCurrencies(used, account) ==
    IF account \in DOMAIN used THEN used[account] ELSE {}

\* the second pass for an Open directive: the new Open directive and the errors
UpdateOpen(entry, used, cfg) ==
    LET used_currencies == UsedCurrencies(used, entry.account)
        new_meta == IF used_currencies # {}
                    THEN [entry.meta EXCEPT
                             !.currencies_used = SortedCurrencies(used_currencies)]
                    ELSE entry.meta
        extend == GetExtendOpenDirectives(cfg) /\ used_currencies # {}
        new_currencies == IF extend /\ ~entry.currencies.given
                          THEN CurrencyList(SortedCurrencies(used_currencies))
                          ELSE entry.currencies
        defined == {entry.currencies.list[k] : k \in DOMAIN entry.currencies.list}
    IN [new_open |-> [entry EXCEPT !.meta = new_meta, !.currencies = new_currencies],
        errors |-> IF extend /\ entry.currencies.given /\ defined # used_currencies
                   THEN <<CurrenciesUsedError("defined currencies do not match used currencies",
                                              entry.lineno)>>
                   ELSE <<>>]

\* the longest directive list of the inputs of currencies_used
MaxUsed == 4

\* the directives of the inputs of currencies_used
UsedShapes ==
    { CuOpen(AcctA, NoCurrencies), CuOpen(AcctS, NoCurrencies),
      CuOpen(AcctA, CurrencyList(<<"EUR">>)),
      CuTransaction(<<CuPosting(AcctA, "USD"), CuPosting(AcctX, "USD")>>),
      CuTransaction(<<CuPosting(AcctS, "EUR")>>),
      CuPad(AcctA, AcctS),
      CuBalance(AcctS, "EUR"),
      CuBalance(AcctA, "EUR") }

\* the configuration strings of the inputs of currencies_used
UsedConfigStrs ==
    { CuNoConfigStr, CuBadConfigStr,
      CuConfigStr(CuConfigDict({"extend_open_directives"}, TRUE, FALSE)),
      CuConfigStr(CuConfigDict({"extend_from_pad_directives"}, FALSE, TRUE)) }

\* the directives as the loader hands them over: dated, and numbered by line
CuDated(shapes) ==
    [i \in 1..Len(shapes) |-> [shapes[i] EXCEPT !.date = i, !.lineno = i]]

\* a call of currencies_used
InitUsed ==
    /\ \E n \in 0..MaxUsed :
          \E s \in [1..n -> UsedShapes] : cu_entries = CuDated(s)
    /\ cu_config_str \in UsedConfigStrs
    /\ cu_pc = "start"
    /\ cu_config = CuEmptyConfig
    /\ cu_account_currencies = <<>>
    /\ cu_index = 0
    /\ cu_new_entries = <<>>
    /\ cu_errors = <<>>
    /\ PadIdle
    /\ BxIdle
    /\ GpIdle

\* currencies_used up to the second pass
CuStart ==
    /\ cu_pc = "start"
    /\ UNCHANGED <<cu_entries, cu_config_str, cu_new_entries>>
    /\ UNCHANGED <<pad_vars, bx_vars, gp_vars>>
    /\ IF cu_config_str.given /\ ~cu_config_str.literal
       THEN /\ cu_pc' = "aborted"
            /\ cu_errors' = <<CurrenciesUsedError("Invalid configuration string", 0)>>
            /\ UNCHANGED <<cu_config, cu_account_currencies, cu_index>>
       ELSE /\ cu_config' = IF cu_config_str.given THEN cu_config_str.value
                            ELSE CuEmptyConfig
            /\ cu_account_currencies' = CollectCurrencies(cu_entries)
            /\ cu_index' = 1
            /\ cu_pc' = "update"
            /\ UNCHANGED cu_errors

\* one iteration of the second pass
CuUpdate ==
    /\ cu_pc = "update"
    /\ cu_index <= Len(cu_entries)
    /\ UNCHANGED <<cu_entries, cu_config_str, cu_pc, cu_config,
                   cu_account_currencies>>
    /\ UNCHANGED <<pad_vars, bx_vars, gp_vars>>
    /\ cu_index' = cu_index + 1
    /\ LET entry == cu_entries[cu_index]
           r == UpdateOpen(entry, cu_account_currencies, cu_config)
       IN IF entry.kind = "Open"
          THEN /\ cu_new_entries' = Append(cu_new_entries, r.new_open)
               /\ cu_errors' = cu_errors \o r.errors
          ELSE /\ cu_new_entries' = Append(cu_new_entries, entry)
               /\ UNCHANGED cu_errors

\* return new_entries, errors
CuReturn ==
    /\ cu_pc = "update"
    /\ cu_index > Len(cu_entries)
    /\ cu_pc' = "returned"
    /\ UNCHANGED <<cu_entries, cu_config_str, cu_config, cu_account_currencies,
                   cu_index, cu_new_entries, cu_errors>>
    /\ UNCHANGED <<pad_vars, bx_vars, gp_vars>>

NextUsed == CuStart \/ CuUpdate \/ CuReturn

SpecUsed == InitUsed /\ [][NextUsed]_vars

---------------------------------------------------------------------------
\* group_pad_transactions: the directives and the state machine.

\* the narrations of the inputs, and the test
\* "(Padding inserted" in entry.narration
PaddingNarration == "(Padding inserted for Balance of 1 USD for difference 1 USD)"
NotedPaddingNarration == "note: (Padding inserted by hand)"
OtherNarration == "lunch"
HasPaddingMark(narration) ==
    narration \in {PaddingNarration, NotedPaddingNarration}

GpPosting(account, number, currency) ==
    [account |-> account, number |-> number, currency |-> currency]

GpBlank == [kind |-> "Open", date |-> 0, lineno |-> 0, flag |-> "",
            narration |-> "", account |-> NoAccount, postings |-> <<>>]

GpOpen(account) == [GpBlank EXCEPT !.account = account]

\* Transaction(meta, date, flag, None, narration, tags, links, postings)
GpTransaction(flag, narration, posts) ==
    [GpBlank EXCEPT !.kind = "Transaction", !.flag = flag,
                    !.narration = narration, !.postings = posts]

\* sorted([p.account for p in entry.postings])
SortedAccounts(posts) ==
    LET accounts == [n \in 1..Len(posts) |-> posts[n].account]
    IN Flatten([a \in 1..Len(AccountOrder) |->
                   SelectSeq(accounts, LAMBDA x : x = AccountOrder[a])])

\* the key (date, accounts[0], accounts[1]) of a pad transaction
GroupKey(entry) ==
    <<entry.date, SortedAccounts(entry.postings)[1],
      SortedAccounts(entry.postings)[2]>>

\* pad_transactions_by_groupping[key].append(entry): a dict in insertion order
RECURSIVE AppendToGroup(_, _, _)
AppendToGroup(groups, key, entry) ==
    IF groups = <<>> THEN <<[key |-> key, entries |-> <<entry>>]>>
    ELSE IF Head(groups).key = key
    THEN <<[Head(groups) EXCEPT !.entries = Append(@, entry)]>> \o Tail(groups)
    ELSE <<Head(groups)>> \o AppendToGroup(Tail(groups), key, entry)

\* the transaction that replaces the pad transactions of a group
GroupedTransaction(group) ==
    [GpTransaction("*",
         IF Len(group.entries) > 1 THEN "Padding (group of n)"
         ELSE group.entries[1].narration,
         Flatten([n \in 1..Len(group.entries) |-> group.entries[n].postings]))
     EXCEPT !.date = group.key[1], !.lineno = group.entries[1].lineno]

\* the longest directive list of the inputs of group_pad_transactions
MaxGroup == 4

GpPair(a, b, currency) == <<GpPosting(a, 1, currency), GpPosting(b, -1, currency)>>

\* the directives of the inputs of group_pad_transactions
GroupShapes ==
    { GpOpen(AcctA),
      GpTransaction("*", OtherNarration, GpPair(AcctA, AcctX, "USD")),
      GpTransaction("*", NotedPaddingNarration, GpPair(AcctA, AcctS, "USD")),
      GpTransaction("P", PaddingNarration, GpPair(AcctA, AcctS, "USD")),
      GpTransaction("P", PaddingNarration, GpPair(AcctS, AcctA, "EUR")),
      GpTransaction("P", PaddingNarration, GpPair(AcctA, AcctX, "USD")),
      GpTransaction("P", OtherNarration, GpPair(AcctA, AcctX, "USD")),
      GpTransaction("P", PaddingNarration, <<GpPosting(AcctA, 1, "USD")>>) }

\* the directives as the loader hands them over: dated, and numbered by line
GpDated(shapes, dates) ==
    [i \in 1..Len(shapes) |-> [shapes[i] EXCEPT !.date = dates[i], !.lineno = i]]

\* a call of group_pad_transactions
InitGroup ==
    /\ \E n \in 0..MaxGroup :
          \E s \in [1..n -> GroupShapes] :
              \E d \in DateVectors(n) : gp_entries = GpDated(s, d)
    /\ gp_pc = "scan"
    /\ gp_index = 1
    /\ gp_result = <<>>
    /\ pad_transactions_by_groupping = <<>>
    /\ PadIdle
    /\ BxIdle
    /\ CuIdle

\* one iteration of the loop over the entries
GpScan ==
    /\ gp_pc = "scan"
    /\ gp_index <= Len(gp_entries)
    /\ UNCHANGED gp_entries
    /\ UNCHANGED <<pad_vars, bx_vars, cu_vars>>
    /\ LET entry == gp_entries[gp_index]
       IN IF entry.kind = "Transaction" /\ entry.flag = "P"
          THEN IF ~HasPaddingMark(entry.narration)
               THEN /\ gp_index' = gp_index + 1
                    /\ UNCHANGED <<gp_pc, gp_result, pad_transactions_by_groupping>>
               ELSE IF Len(entry.postings) # 2
               THEN /\ gp_pc' = "raised"
                    /\ UNCHANGED <<gp_index, gp_result, pad_transactions_by_groupping>>
               ELSE /\ pad_transactions_by_groupping'
                          = AppendToGroup(pad_transactions_by_groupping,
                                          GroupKey(entry), entry)
                    /\ gp_index' = gp_index + 1
                    /\ UNCHANGED <<gp_pc, gp_result>>
          ELSE /\ gp_result' = Append(gp_result, entry)
               /\ gp_index' = gp_index + 1
               /\ UNCHANGED <<gp_pc, pad_transactions_by_groupping>>

\* one iteration of the loop over the groups
GpEmit ==
    /\ gp_pc = "scan"
    /\ gp_index > Len(gp_entries)
    /\ pad_transactions_by_groupping # <<>>
    /\ gp_result' = Append(gp_result,
                           GroupedTransaction(Head(pad_transactions_by_groupping)))
    /\ pad_transactions_by_groupping' = Tail(pad_transactions_by_groupping)
    /\ UNCHANGED <<gp_entries, gp_pc, gp_index>>
    /\ UNCHANGED <<pad_vars, bx_vars, cu_vars>>

\* return result, []
GpReturn ==
    /\ gp_pc = "scan"
    /\ gp_index > Len(gp_entries)
    /\ pad_transactions_by_groupping = <<>>
    /\ gp_pc' = "returned"
    /\ UNCHANGED <<gp_entries, gp_index, gp_result, pad_transactions_by_groupping>>
    /\ UNCHANGED <<pad_vars, bx_vars, cu_vars>>

NextGroup == GpScan \/ GpEmit \/ GpReturn

SpecGroup == InitGroup /\ [][NextGroup]_vars

---------------------------------------------------------------------------
\* Notions the properties are stated with.

Done == pc = "done" /\ outcome = "returned"
Completed == Done /\ ~aborted

\* the transactions recorded against the pad markers so far
Synthesized ==
    UNION {{new_entries[i][k] : k \in DOMAIN new_entries[i]} : i \in DOMAIN new_entries}

\* the event the walk has just processed
Walking == pc \in {"event", "walk"} /\ account_ # NoAccount
LastEvent ==
    LET full == Timeline(entries, account_) IN full[Len(full) - Len(postings)]

\* a Balance entry that does not hold against the running inventory
Fails(entry) ==
    /\ entry.kind = "Balance"
    /\ Abs(get_currency_units(pad_balance, entry.currency) - entry.number)
           > get_balance_tolerance(entry)

\* the number of transactions recorded against the pad markers before entry i
RECURSIVE Recorded(_)
Recorded(i) ==
    IF i <= 1 THEN 0
    ELSE Recorded(i - 1)
           + (IF (i - 1) \in DOMAIN new_entries THEN Len(new_entries[i - 1]) ELSE 0)

Position(i) == i + Recorded(i)

HasExplicitSource(e) ==
    \/ e.kind = "Pad"
    \/ e.kind = "Custom" /\ e.type = "pad-ext" /\ e.meta.pad_account # NoAccount

ExplicitSource(e) == IF e.kind = "Pad" THEN e.source_account ELSE e.meta.pad_account

\* caches that hold other answers for the padded account
SampleCaches(account) ==
    SUBSET {[account |-> account, sign |-> sign, res |-> AcctX] : sign \in {-1, 1}}

\* the sort key of a directive of the returned list (data.entry_sortkey)
EntryKey(e) == <<e.date, SortOrder(e.kind), e.lineno>>

\* the units of the currency that the postings of a directive move on the
\* account or one of its descendants
UnitsOn(e, account, currency) ==
    SumSeq([p \in 1..Len(e.postings) |->
              IF is_child(account, e.postings[p].account)
                 /\ e.postings[p].currency = currency
              THEN e.postings[p].number ELSE 0])

\* the balance of the account of a Balance entry b, descendants included, over
\* the transactions of the list that are sorted in front of b
RecomputedBalance(out, b) ==
    SumSeq([k \in 1..Len(out) |->
              IF out[k].kind = "Transaction" /\ KeyLess(EntryKey(out[k]), EntryKey(b))
              THEN UnitsOn(out[k], b.account, b.currency) ELSE 0])

\* a pad-ext marker for which neither the metadata nor any rule names a source
Unresolvable(e) ==
    /\ e.kind = "Custom" /\ e.type = "pad-ext" /\ e.meta.pad_account = NoAccount
    /\ \A n \in DOMAIN default_pad_account_config :
          ~ReMatch(default_pad_account_config[n].regex, get_padded_account(e))

\* a pad-ext-config directive that get_directives_defined_config rejects
BadConfigEntry(e) ==
    /\ IsPadExtConfig(e)
    /\ \/ ~e.meta.account_regex.present
       \/ ~e.meta.account_regex.valid
       \/ /\ ~(e.meta.pad_account_expenses # NoTemplate
               /\ e.meta.pad_account_income # NoTemplate)
          /\ e.meta.pad_account = NoTemplate

\* the call has a configuration error
HasConfigError ==
    \/ config_str.given /\ ~config_str.literal
    \/ \E i \in DOMAIN entries : BadConfigEntry(entries[i])
    \/ /\ config_str.given /\ config_str.literal
       /\ "default_pad_account" \in config_str.value.keys
       /\ \E n \in DOMAIN config_str.value.default_pad_account :
             ~config_str.value.default_pad_account[n].regex.valid

UnusedDiagnostics ==
    Cardinality({n \in DOMAIN pad_errors : pad_errors[n].message = "Unused Pad entry"})

\* the pad markers of the call against which no transaction is recorded
UnusedMarkers ==
    {i \in PadIds(entries, config) :
        i \notin DOMAIN new_entries \/ new_entries[i] = <<>>}

---------------------------------------------------------------------------
\* Properties.

\* the shape of a synthesized transaction t
BalancedPad(t) ==
    /\ Len(t.postings) = 2
    /\ t.postings[1].meta \in DOMAIN entries
    /\ entries[t.postings[1].meta].kind = "Balance"
    /\ \A p \in 1..2 :
          /\ t.postings[p].currency = entries[t.postings[1].meta].currency
          /\ t.postings[p].cost = NoCost
          /\ t.postings[p].meta = t.postings[1].meta
    /\ t.postings[1].number + t.postings[2].number = 0

\* C1: every synthesized transaction, as recorded against its pad marker and as
\* returned, has exactly two postings, both in the currency of the Balance
\* entry that triggered it and without cost, the first on the padded account,
\* and the two amounts sum to zero.
C1_BalancedPostings ==
    /\ \A i \in DOMAIN new_entries : \A k \in DOMAIN new_entries[i] :
          /\ BalancedPad(new_entries[i][k])
          /\ new_entries[i][k].postings[1].account = get_padded_account(entries[i])
    /\ \A k \in DOMAIN padded_entries :
          padded_entries[k].flag = "P" => BalancedPad(padded_entries[k])

\* a returned list that holds a synthesized transaction with a negative adjustment
C1_Witness ==
    /\ Completed
    /\ \E k \in DOMAIN padded_entries :
          padded_entries[k].flag = "P" /\ padded_entries[k].postings[1].number < 0

\* C2: at most one transaction is recorded against a pad marker for a currency.
C2_AtMostOnePerCurrency ==
    \A i \in DOMAIN new_entries : \A c \in Currencies :
        Cardinality({k \in DOMAIN new_entries[i] :
                        new_entries[i][k].postings[1].currency = c}) <= 1

\* the walk has just passed a failing Balance entry whose currency was padded
\* under the same activation for an earlier Balance entry
C2_Witness ==
    /\ Walking /\ active_pad # 0
    /\ Len(postings) < Len(Timeline(entries, account_))
    /\ Fails(entries[LastEvent.idx])
    /\ \E k \in DOMAIN new_entries[active_pad] :
          /\ new_entries[active_pad][k].postings[1].currency
                = entries[LastEvent.idx].currency
          /\ new_entries[active_pad][k].postings[1].meta # LastEvent.idx

\* C3: in the returned list every Balance entry that triggered a synthesized
\* transaction holds within its tolerance against the balance of its account
\* and descendants, recomputed over the transactions of the returned list.
C3_TriggeringAssertionsHold ==
    Completed =>
        \A k \in DOMAIN padded_entries :
            padded_entries[k].flag = "P" =>
                LET b == entries[padded_entries[k].postings[1].meta]
                IN Abs(RecomputedBalance(padded_entries, b) - b.number)
                       <= get_balance_tolerance(b)

\* C4: the returned list is the input list in its order, each input directive
\* followed at once by the transactions recorded against it, and nothing else.
C4_InsertedAfterMarker ==
    Done =>
        /\ Len(padded_entries) = Len(entries) + Recorded(Len(entries) + 1)
        /\ \A i \in DOMAIN entries :
              /\ padded_entries[Position(i)] = entries[i]
              /\ i \in DOMAIN new_entries =>
                    \A k \in DOMAIN new_entries[i] :
                        padded_entries[Position(i) + k] = new_entries[i][k]

\* a returned list with a block of two transactions and a directive behind it
C4_Witness ==
    /\ Completed
    /\ \E i \in DOMAIN new_entries : Len(new_entries[i]) = 2 /\ i < Len(entries)

\* C5: a pad marker against which no transaction is recorded is not in the
\* returned list of a call that completes.
C5_UnusedPadDropped ==
    Completed =>
        \A i \in UnusedMarkers :
            \A k \in DOMAIN padded_entries : padded_entries[k] # entries[i]

\* C6 as stated: the number of "Unused Pad entry" diagnostics of a call that
\* returns is 0 without the flag and the number of unused markers with it.
C6_UnusedDiagnosticsOfAnyCall ==
    Done =>
        UnusedDiagnostics
            = IF GetUnusedErrors(config) THEN Cardinality(UnusedMarkers) ELSE 0

\* C6 amended: the count holds for a call that is not ended by a configuration
\* error; a call that is ended by one returns no "Unused Pad entry" diagnostic.
C6_UnusedDiagnostics ==
    /\ Completed =>
          UnusedDiagnostics
              = IF GetUnusedErrors(config) THEN Cardinality(UnusedMarkers) ELSE 0
    /\ (Done /\ aborted) => UnusedDiagnostics = 0

\* a completed call with the flag, a used marker and an unused one
C6_Witness ==
    /\ Completed /\ GetUnusedErrors(config)
    /\ UnusedMarkers # {}
    /\ \E i \in DOMAIN new_entries : new_entries[i] # <<>>

\* C7: no transaction is recorded against a pad-ext marker that has no source
\* account and whose padded account no rule matches, and no posting has a null
\* account.
C7_NoNullSource ==
    /\ \A i \in DOMAIN new_entries : Unresolvable(entries[i]) => new_entries[i] = <<>>
    /\ \A t \in Synthesized : \A p \in DOMAIN t.postings :
          t.postings[p].account # NoAccount

\* C8: a step of the walk over a Balance entry that fails while no pad is
\* active or its currency is already in padded_lots appends a diagnostic.
C8_DiscrepancyReported ==
    [][(/\ pc = "event" /\ postings # <<>>
        /\ Head(postings).pidx = 0
        /\ Fails(entries[Head(postings).idx])
        /\ (active_pad = 0 \/ entries[Head(postings).idx].currency \in padded_lots))
       => Len(pad_errors') > Len(pad_errors)]_vars

\* C9: the source posting of every transaction recorded against a marker with
\* an explicit source account is on that account, and the resolution of such
\* a marker returns that account and the cache as it was given, for both signs
\* and whatever the cache holds for the padded account.
C9_ExplicitSourceWins ==
    /\ \A i \in DOMAIN new_entries : \A k \in DOMAIN new_entries[i] :
          HasExplicitSource(entries[i]) =>
              new_entries[i][k].postings[2].account = ExplicitSource(entries[i])
    /\ \A i \in DOMAIN entries :
          (entries[i].kind \in {"Pad", "Custom"} /\ HasExplicitSource(entries[i])) =>
              \A number \in {-1, 1} :
                  \A cache \in SampleCaches(get_padded_account(entries[i]))
                                  \cup {default_pad_acount_cache} :
                      get_source_account(entries[i], number,
                                         default_pad_account_config, cache)
                          = [raised |-> FALSE, res |-> ExplicitSource(entries[i]),
                             cache |-> cache]

\* a transaction recorded against a pad-ext marker with a pad_account key while
\* a pad-ext-config rule matches the padded account
C9_Witness ==
    \E i \in DOMAIN new_entries :
        /\ entries[i].kind = "Custom" /\ HasExplicitSource(entries[i])
        /\ new_entries[i] # <<>>
        /\ \E j \in DOMAIN entries : IsPadExtConfig(entries[j])
        /\ \E n \in DOMAIN default_pad_account_config :
              ReMatch(default_pad_account_config[n].regex,
                      get_padded_account(entries[i]))

\* C10: a call with a configuration error returns the input list unchanged
\* with at least one diagnostic, and never raises.
C10_ConfigErrorsReturned ==
    (pc = "done" /\ HasConfigError) =>
        /\ outcome = "returned"
        /\ padded_entries = entries
        /\ Len(pad_errors) >= 1

\* a pad-ext marker without a pad_account key: its source comes from the rules
RuleResolved(e) ==
    e.kind = "Custom" /\ e.type = "pad-ext" /\ e.meta.pad_account = NoAccount

\* the resolution of the marker over the rule list of the call with no cache
Cacheless(e, number) ==
    get_source_account(e, number, default_pad_account_config, {})

\* C11: every cache entry is what the rule list gives for its (padded
\* account, sign), a key has one entry, every transaction recorded against a
\* marker has the source account of a cache-less resolution, and a resolution
\* with the cache of the call returns what the cache-less one returns.
C11_CacheTransparent ==
    /\ \A c \in default_pad_acount_cache :
          LET r == ResolveFrom(default_pad_account_config, c.account, c.sign)
          IN r.found /\ r.res = c.res
    /\ \A c1, c2 \in default_pad_acount_cache :
          (c1.account = c2.account /\ c1.sign = c2.sign) => c1 = c2
    /\ \A i \in DOMAIN new_entries : \A k \in DOMAIN new_entries[i] :
          new_entries[i][k].postings[2].account
              = Cacheless(entries[i], new_entries[i][k].postings[1].number).res
    /\ \A i \in DOMAIN new_entries : \A number \in {-1, 1} :
          get_source_account(entries[i], number, default_pad_account_config,
                             default_pad_acount_cache).res
              = Cacheless(entries[i], number).res

\* two transactions of the same sign recorded against one marker whose source
\* comes from the rules: the second resolution found its pair in the cache
C11_Witness ==
    \E i \in DOMAIN new_entries :
        /\ RuleResolved(entries[i])
        /\ Len(new_entries[i]) = 2
        /\ CopySign(new_entries[i][1].postings[1].number)
              = CopySign(new_entries[i][2].postings[1].number)
        /\ CacheKey(get_padded_account(entries[i]),
                    CopySign(new_entries[i][2].postings[1].number))
              \in CacheKeys(default_pad_acount_cache)

\* C12: every synthesized transaction, as recorded and as returned, has the
\* date of the pad marker it is recorded against and the flag 'P', and its
\* first posting is on the padded account of that marker.
C12_DatedAtMarker ==
    /\ \A i \in DOMAIN new_entries : \A k \in DOMAIN new_entries[i] :
          /\ new_entries[i][k].date = entries[i].date
          /\ new_entries[i][k].flag = "P"
          /\ new_entries[i][k].postings[1].account = get_padded_account(entries[i])
    /\ Done =>
          \A i \in DOMAIN new_entries : \A k \in DOMAIN new_entries[i] :
              /\ padded_entries[Position(i) + k].date = entries[i].date
              /\ padded_entries[Position(i) + k].flag = "P"

\* a returned transaction whose Balance entry is dated after its pad marker
C12_Witness ==
    /\ Completed
    /\ \E i \in DOMAIN new_entries : \E k \in DOMAIN new_entries[i] :
          /\ entries[new_entries[i][k].postings[1].meta].date > entries[i].date
          /\ padded_entries[Position(i) + k] = new_entries[i][k]

\* the pad-ext-config directives whose regex matches the account
MatchingDirectives(account) ==
    {j \in DOMAIN entries :
        IsPadExtConfig(entries[j]) /\ ReMatch(entries[j].meta.account_regex, account)}

Max(S) == CHOOSE x \in S : \A y \in S : y <= x

\* the source account that a pad-ext-config directive names for the account
\* and the sign of the adjustment
DirectiveSource(e, account, number) ==
    IF e.meta.pad_account_expenses # NoTemplate /\ e.meta.pad_account_income # NoTemplate
    THEN Format(IF number > 0 THEN e.meta.pad_account_income
                ELSE e.meta.pad_account_expenses, Head(account), Tail(account))
    ELSE Format(e.meta.pad_account, Head(account), Tail(account))

\* C13: the source account of every transaction recorded against a pad-ext
\* marker without a pad_account key, whose padded account a pad-ext-config
\* directive matches, is the one of the matching directive declared last,
\* whatever the default table holds.
C13_LastDirectiveWins ==
    \A i \in DOMAIN new_entries : \A k \in DOMAIN new_entries[i] :
        (RuleResolved(entries[i])
         /\ MatchingDirectives(get_padded_account(entries[i])) # {}) =>
            new_entries[i][k].postings[2].account
                = DirectiveSource(
                      entries[Max(MatchingDirectives(get_padded_account(entries[i])))],
                      get_padded_account(entries[i]),
                      new_entries[i][k].postings[1].number)

\* a transaction recorded while two directives that name different sources
\* match the padded account, and an entry of the default table matches it too
C13_Witness ==
    \E i \in DOMAIN new_entries : \E k \in DOMAIN new_entries[i] :
        /\ RuleResolved(entries[i])
        /\ \E j1, j2 \in MatchingDirectives(get_padded_account(entries[i])) :
              DirectiveSource(entries[j1], get_padded_account(entries[i]),
                              new_entries[i][k].postings[1].number)
                # DirectiveSource(entries[j2], get_padded_account(entries[i]),
                                  new_entries[i][k].postings[1].number)
        /\ \E n \in DOMAIN GetDefaultTable(config) :
              ReMatch(GetDefaultTable(config)[n].regex, get_padded_account(entries[i]))

\* the source account that an entry of the default table names for the
\* account and the sign of the adjustment: (regex, source) or
\* (regex, income_source, expenses_source)
ItemSource(item, account, number) ==
    IF ItemLen(item) = 2 THEN Format(item.rest[1], Head(account), Tail(account))
    ELSE Format(IF number > 0 THEN item.rest[1] ELSE item.rest[2],
                Head(account), Tail(account))

\* the entries of the default table of the call whose regex matches the account
MatchingItems(account) ==
    {n \in DOMAIN GetDefaultTable(config) :
        ReMatch(GetDefaultTable(config)[n].regex, account)}

Min(S) == CHOOSE x \in S : \A y \in S : x <= y

\* C14: the source account of every transaction recorded against a pad-ext
\* marker without a pad_account key, whose padded account no pad-ext-config
\* directive matches, is the one of the first entry of the default table, in
\* its declared order, whose regex matches the padded account.
C14_DeclaredOrder ==
    \A i \in DOMAIN new_entries : \A k \in DOMAIN new_entries[i] :
        (RuleResolved(entries[i])
         /\ MatchingDirectives(get_padded_account(entries[i])) = {}
         /\ MatchingItems(get_padded_account(entries[i])) # {}) =>
            new_entries[i][k].postings[2].account
                = ItemSource(
                      GetDefaultTable(config)[
                          Min(MatchingItems(get_padded_account(entries[i])))],
                      get_padded_account(entries[i]),
                      new_entries[i][k].postings[1].number)

\* the index of the first rule of the list that matches the account, 0 for none
RECURSIVE FirstMatch(_, _, _)
FirstMatch(mappings, account, n) ==
    IF n > Len(mappings) THEN 0
    ELSE IF ~mappings[n].isNone /\ ReMatch(mappings[n].regex, account) THEN n
    ELSE FirstMatch(mappings, account, n + 1)

\* the source that the input behind rule n of the rule list names: the rule
\* list holds the pad-ext-config directives, last declared first, and then the
\* default table, last declared first
RuleSource(n, account, number) ==
    LET directives == Reversed(SelectSeq(entries, IsPadExtConfig))
        items == Reversed(GetDefaultTable(config))
    IN IF n <= Len(directives)
       THEN DirectiveSource(directives[n], account, number)
       ELSE ItemSource(items[n - Len(directives)], account, number)

\* C15: the source account of every transaction recorded against a pad-ext
\* marker without a pad_account key is built from the matching rule: a rule
\* with an income/expenses pair gives its income template for a positive
\* adjustment and its expenses template for a negative one, a rule with a
\* single template gives it for both signs.
C15_SignSelectsTemplate ==
    \A i \in DOMAIN new_entries : \A k \in DOMAIN new_entries[i] :
        LET account == get_padded_account(entries[i])
            n == FirstMatch(default_pad_account_config, account, 1)
        IN (RuleResolved(entries[i]) /\ n # 0) =>
              new_entries[i][k].postings[2].account
                  = RuleSource(n, account, new_entries[i][k].postings[1].number)

\* two transactions of opposite signs recorded against one marker, with the
\* source accounts of the two templates of the matching rule
C15_Witness ==
    \E i \in DOMAIN new_entries :
        /\ RuleResolved(entries[i])
        /\ Len(new_entries[i]) = 2
        /\ new_entries[i][1].postings[1].number > 0
        /\ new_entries[i][2].postings[1].number < 0
        /\ new_entries[i][1].postings[2].account
              # new_entries[i][2].postings[2].account

\* the step of the walk passes over a native Pad directive
OverNativePad ==
    /\ pc = "event" /\ postings # <<>>
    /\ Head(postings).pidx = 0
    /\ entries[Head(postings).idx].kind = "Pad"

\* C16: in a call without handle_default_pad_directives no native Pad directive
\* is the active pad, has a transaction recorded against it or an unused-pad
\* diagnostic, and each is returned unchanged at its place; a step of the walk
\* over one leaves the active pad and the padded currencies as they are; every
\* pad-ext directive is a pad marker of the call, with or without the flag.
C16_NativePadIgnored ==
    /\ [](~GetHandleDefault(config) =>
            \A i \in DOMAIN entries : entries[i].kind = "Pad" =>
                /\ active_pad # i
                /\ i \notin DOMAIN new_entries
                /\ \A n \in DOMAIN pad_errors :
                      ~(pad_errors[n].message = "Unused Pad entry"
                        /\ pad_errors[n].entry = i)
                /\ Done => padded_entries[Position(i)] = entries[i])
    /\ []((pc \in {"walk", "event"} \/ Completed) =>
            \A i \in DOMAIN entries :
                (entries[i].kind = "Custom" /\ entries[i].type = "pad-ext") =>
                    i \in DOMAIN new_entries)
    /\ [][(OverNativePad /\ ~GetHandleDefault(config)) =>
            (active_pad' = active_pad /\ padded_lots' = padded_lots)]_vars

\* the walk of a padded account, without the flag, has passed a native Pad
\* directive on that account while a pad-ext marker was active and a currency
\* was already checked
C16_Witness ==
    /\ Walking /\ ~GetHandleDefault(config)
    /\ Len(postings) < Len(Timeline(entries, account_))
    /\ entries[LastEvent.idx].kind = "Pad"
    /\ entries[LastEvent.idx].account = account_
    /\ active_pad # 0 /\ padded_lots # {}

---------------------------------------------------------------------------
\* Properties of balance_extended.

\* the directives of a list that come from line i of the input
FromInput(out, i) == SelectSeq(out, LAMBDA e : e.lineno = i)

\* the errors reported for the directive of line i
ErrorsOf(i) == SelectSeq(bx_errors, LAMBDA err : err.entry = i)

\* the amount values among a sequence of values
AmountsAmong(values) == SelectSeq(values, LAMBDA v : v.dtype = "amount")

\* a balance-ext directive written as ("padded", account, pad account, amounts)
PaddedWithPadAccount(e) ==
    /\ IsBalanceExt(e)
    /\ Len(e.values) >= 4
    /\ e.values[1] = Padded
    /\ e.values[2].dtype = "str" /\ e.values[3].dtype = "str"
    /\ \A k \in 4..Len(e.values) : e.values[k].dtype = "amount"

\* C17: in a call that returns its new list, a balance-ext directive written
\* as ("padded", account, pad account, amount...) has no error and expands
\* into a native Pad of the account from the pad account, dated one day before
\* the directive, and behind it one Balance per amount at the directive's date.
C17_PaddedExpansion ==
    bx_pc = "returned" =>
        \A i \in DOMAIN bx_entries : PaddedWithPadAccount(bx_entries[i]) =>
            LET e == bx_entries[i]
                x == FromInput(bx_new_entries, i)
            IN /\ ErrorsOf(i) = <<>>
               /\ Len(x) = 1 + (Len(e.values) - 3)
               /\ x[1].kind = "Pad"
               /\ x[1].account = e.values[2].str
               /\ x[1].source_account = e.values[3].str
               /\ x[1].date = DayBefore(e.date)
               /\ \A k \in 2..Len(x) : x[k].kind = "Balance" /\ x[k].date = e.date

\* the balance type of a directive that names one as its first value
ExplicitType(e) ==
    IF e.values # <<>> /\ e.values[1].dtype = "str" /\ IsMappingKey(e.values[1].str)
    THEN BALANCE_TYPE_MAPPINGS[e.values[1].str[1]]
    ELSE IF e.values # <<>> /\ e.values[1].dtype = "str" /\ IsTypeValue(e.values[1].str)
    THEN e.values[1].str[1]
    ELSE "none"

\* the balance type of the directive of line i: the one it was parsed with, or
\* the one it names
TypeOfDirective(i) ==
    IF i \in DOMAIN balance_extended_parsed_entries
    THEN balance_extended_parsed_entries[i].balance_type
    ELSE ExplicitType(bx_entries[i])

\* the account of a balance-ext directive: the value behind the type, or the
\* first value of a directive that names no type
AccountOfDirective(e) ==
    LET k == IF ExplicitType(e) = "none" THEN 1 ELSE 2
    IN IF Len(e.values) >= k /\ e.values[k].dtype = "str" THEN e.values[k].str
       ELSE NoAccount

\* the amounts given in a balance-ext directive
GivenAmounts(e) ==
    AmountsAmong(SubSeq(e.values, IF ExplicitType(e) = "none" THEN 2 ELSE 3,
                        Len(e.values)))

GivenCurrencies(e) == {GivenAmounts(e)[k].currency : k \in DOMAIN GivenAmounts(e)}

\* the currencies of the Open directives of the account in the input
OpenCurrencies(account) ==
    UNION {bx_entries[j].currencies :
             j \in {k \in DOMAIN bx_entries : /\ bx_entries[k].kind = "Open"
                                              /\ bx_entries[k].account = account}}

\* the currencies the directive of line i is to assert
ExpectedCurrencies(i) ==
    GivenCurrencies(bx_entries[i])
    \cup (IF TypeOfDirective(i) \in {"full", "full-padded"}
          THEN OpenCurrencies(AccountOfDirective(bx_entries[i])) ELSE {})

\* the Balance directives of the list out for line i are one per expected
\* currency, in ascending order, 0 for a currency that is not given
AssertsExpected(out, i) ==
    LET x == SelectSeq(FromInput(out, i), LAMBDA e : e.kind = "Balance")
        expected == SelectSeq(CurrencyOrder, LAMBDA c : c \in ExpectedCurrencies(i))
    IN /\ Len(x) = Len(expected)
       /\ \A n \in DOMAIN x :
             /\ x[n].currency = expected[n]
             /\ x[n].account = AccountOfDirective(bx_entries[i])
             /\ x[n].currency \notin GivenCurrencies(bx_entries[i]) => x[n].number = 0
             /\ x[n].currency \in GivenCurrencies(bx_entries[i]) =>
                   \E k \in DOMAIN GivenAmounts(bx_entries[i]) :
                       /\ GivenAmounts(bx_entries[i])[k].currency = x[n].currency
                       /\ GivenAmounts(bx_entries[i])[k].number = x[n].number

\* C18 as stated: whenever balance_extended returns, the list it returns holds
\* for every balance-ext directive of a type one Balance per currency given or,
\* for full and full-padded, declared by the Open directive of the account.
C18_AssertedCurrenciesOfAnyCall ==
    bx_pc \in {"returned", "aborted"} =>
        \A i \in DOMAIN bx_entries :
            (IsBalanceExt(bx_entries[i]) /\ TypeOfDirective(i) \in BalanceTypeValues) =>
                AssertsExpected(BxReturned, i)

\* C18 amended: the same for the balance-ext directives that were parsed, in a
\* call that is not ended by a configuration error; a directive that was not
\* parsed gets no directive at all, and a call that is ended by a configuration
\* error returns its input.
C18_AssertedCurrencies ==
    /\ bx_pc = "returned" =>
          \A i \in DOMAIN bx_entries : IsBalanceExt(bx_entries[i]) =>
              IF i \in DOMAIN balance_extended_parsed_entries
              THEN AssertsExpected(bx_new_entries, i)
              ELSE FromInput(bx_new_entries, i) = <<>>
    /\ bx_pc = "aborted" => BxReturned = bx_entries

\* a returned list with a full directive that gives one currency while the
\* Open directive of its account declares another one
C18_Witness ==
    /\ bx_pc = "returned"
    /\ \E i \in DOMAIN balance_extended_parsed_entries :
          /\ TypeOfDirective(i) \in {"full", "full-padded"}
          /\ GivenCurrencies(bx_entries[i]) # {}
          /\ ExpectedCurrencies(i) # GivenCurrencies(bx_entries[i])
          /\ Len(FromInput(bx_new_entries, i)) >= 2

\* the values of a balance-ext directive behind its account
ValuesBehindAccount(e) ==
    SubSeq(e.values, IF ExplicitType(e) = "none" THEN 2 ELSE 3, Len(e.values))

\* a value that is no amount and not the Decimal 0 that stands for no balance
InvalidAmount(v) == v.dtype # "amount" /\ ~(v.dtype = "decimal" /\ v.number = 0)

\* a directive with too few values: [type] account amount
TooFewValues(e) ==
    Len(e.values) < (IF ExplicitType(e) = "none" THEN 2 ELSE 3)

\* a directive whose account value is no string
NonStringAccount(e) ==
    /\ ~TooFewValues(e)
    /\ e.values[IF ExplicitType(e) = "none" THEN 1 ELSE 2].dtype # "str"

\* a directive whose first value is a word that is no balance type
UnknownBalanceType(e) ==
    /\ e.values # <<>>
    /\ e.values[1].dtype = "str" /\ Len(e.values[1].str) = 1
    /\ ExplicitType(e) = "none"

Unparsable(e) == TooFewValues(e) \/ NonStringAccount(e) \/ UnknownBalanceType(e)

\* a directive with valid amounts and one value that is no amount
OneInvalidAmount(e) ==
    /\ ~Unparsable(e)
    /\ GivenAmounts(e) # <<>>
    /\ Len(SelectSeq(ValuesBehindAccount(e), InvalidAmount)) = 1

\* the errors reported for a value of the directive of line i that is no amount
AmountErrorsOf(i) ==
    SelectSeq(ErrorsOf(i), LAMBDA err : err.message = "Expected Amount object")

\* C19: in a call that returns its new list, a balance-ext directive that
\* cannot be parsed (too few values, an account that is no string, an unknown
\* balance type) has one error and no directive in the list; a directive with
\* one invalid amount among valid ones has one error and the Balance
\* directives of its valid amounts; every other directive is in the list.
C19_UnparsedAndInvalid ==
    bx_pc = "returned" =>
        \A i \in DOMAIN bx_entries :
            /\ (IsBalanceExt(bx_entries[i]) /\ Unparsable(bx_entries[i])) =>
                  (Len(ErrorsOf(i)) = 1 /\ FromInput(bx_new_entries, i) = <<>>)
            /\ (IsBalanceExt(bx_entries[i]) /\ OneInvalidAmount(bx_entries[i])
                /\ i \in DOMAIN balance_extended_parsed_entries) =>
                  (Len(AmountErrorsOf(i)) = 1 /\ AssertsExpected(bx_new_entries, i))
            /\ ~IsBalanceExt(bx_entries[i]) =>
                  FromInput(bx_new_entries, i) = <<bx_entries[i]>>

\* a pad marker: a native Pad or a custom pad-ext
IsPadMarker(e) == e.kind = "Pad" \/ (e.kind = "Custom" /\ e.type = "pad-ext")

\* the list out is the input in its order, each balance-ext directive replaced
\* at its place by directives made from it: at most one pad marker, in front,
\* and Balance directives
ExpandedInPlace(out) ==
    /\ out = Flatten([i \in 1..Len(bx_entries) |-> FromInput(out, i)])
    /\ \A i \in DOMAIN bx_entries :
          IF IsBalanceExt(bx_entries[i])
          THEN \A k \in DOMAIN FromInput(out, i) :
                  \/ FromInput(out, i)[k].kind = "Balance"
                  \/ k = 1 /\ IsPadMarker(FromInput(out, i)[k])
          ELSE FromInput(out, i) = <<bx_entries[i]>>

\* C20 as stated: whenever balance_extended returns, the list it returns is
\* the input with each balance-ext directive expanded in place.
C20_ExpandedInPlaceOfAnyCall ==
    bx_pc \in {"returned", "aborted"} => ExpandedInPlace(BxReturned)

\* C20 amended: the list of a call that is not ended by a configuration error
\* is the input with each balance-ext directive expanded in place; a call that
\* is ended by a configuration error returns its input, balance-ext directives
\* included.
C20_ExpandedInPlace ==
    /\ bx_pc = "returned" => ExpandedInPlace(bx_new_entries)
    /\ bx_pc = "aborted" => BxReturned = bx_entries

\* a returned list with a directive in front of a balance-ext directive that
\* is expanded into a pad marker and a Balance, and a directive behind it
C20_Witness ==
    /\ bx_pc = "returned"
    /\ \E i \in DOMAIN bx_entries :
          /\ i > 1 /\ i < Len(bx_entries)
          /\ IsBalanceExt(bx_entries[i])
          /\ ~IsBalanceExt(bx_entries[i - 1]) /\ ~IsBalanceExt(bx_entries[i + 1])
          /\ Len(FromInput(bx_new_entries, i)) = 2
          /\ IsPadMarker(FromInput(bx_new_entries, i)[1])

---------------------------------------------------------------------------
\* The pad markers of balance_extended.

\* a pad marker that has a pad key: a native Pad, or a pad-ext with a string
\* as its first value
IsKeyedMarker(e) ==
    \/ e.kind = "Pad"
    \/ /\ e.kind = "Custom" /\ e.type = "pad-ext"
       /\ e.values # <<>> /\ e.values[1].dtype = "str"

KeyOfMarker(e) ==
    [date |-> e.date,
     account |-> IF e.kind = "Pad" THEN e.account ELSE e.values[1].str]

\* the keyed pad markers of a list, by their place
MarkersOf(out) == {k \in DOMAIN out : IsKeyedMarker(out[k])}

\* the parsed padded and full-padded directives of the input
PaddedDirectives ==
    {i \in DOMAIN bx_entries :
        /\ IsBalanceExt(bx_entries[i])
        /\ i \in DOMAIN balance_extended_parsed_entries
        /\ balance_extended_parsed_entries[i].balance_type
              \in {"padded", "full-padded"}}

\* the pad key of the padded directive of line i
KeyOfDirective(i) ==
    [date |-> get_pad_date(bx_entries[i].date,
                           balance_dates_per_account[
                               balance_extended_parsed_entries[i].account],
                           bx_config).date,
     account |-> balance_extended_parsed_entries[i].account]

\* the keys of the keyed pad markers of the input
KeysOfInput ==
    {KeyOfMarker(bx_entries[i]) : i \in MarkersOf(bx_entries)}

\* the number of pad markers that the list holds from line i of the input
GeneratedBy(out, i) == Len(SelectSeq(FromInput(out, i), IsPadMarker))

\* a padded directive that is to name a source account and does not
LacksPadAccount(i) ==
    /\ GetDefaultPadType(bx_config) # "pad-ext"
    /\ bx_entries[i].meta.pad_account.dtype # "str"

MonthBefore(d) == IF d.month > 1 THEN <<d.year, d.month - 1>> ELSE <<d.year - 1, 12>>

\* the latest date of a non-empty set of dates
LatestDate(ds) == CHOOSE d \in ds : \A o \in ds : ~DateLess(d, o)

\* the dates of the Balance directives and the other balance-ext directives
\* of the account of the directive of line i that lie before its date
EarlierBalanceDates(i) ==
    {bx_entries[j].date :
        j \in {k \in DOMAIN bx_entries :
                 /\ k # i
                 /\ \/ /\ bx_entries[k].kind = "Balance"
                       /\ bx_entries[k].account
                             = balance_extended_parsed_entries[i].account
                    \/ /\ k \in DOMAIN balance_extended_parsed_entries
                       /\ balance_extended_parsed_entries[k].account
                             = balance_extended_parsed_entries[i].account
                 /\ DateLess(bx_entries[k].date, bx_entries[i].date)}}

\* the dates on a preferred day, in the month of the directive of line i or
\* the month before, that lie before its date and not before the previous
\* balance date of its account
PreferredDates(i) ==
    LET date == bx_entries[i].date
        days == {GetPreferredPadDates(bx_config)[n] :
                    n \in DOMAIN GetPreferredPadDates(bx_config)}
        months == {<<date.year, date.month>>, MonthBefore(date)}
    IN {c \in {Date(m[1], m[2], day) : m \in months, day \in days} :
           /\ IsDate(c.year, c.month, c.day)
           /\ DateLess(c, date)
           /\ \A prev \in EarlierBalanceDates(i) : ~DateLess(c, prev)}

\* C29: with preferred_pad_dates configured no call raises, and the pad
\* marker of a padded directive is dated at the latest preferred date in the
\* month of the directive or the month before that is before the directive
\* and not before the previous balance date of the account, and at the day
\* before the directive when there is no such date.
C29_PreferredPadDate ==
    GetPreferredPadDates(bx_config) # <<>> =>
        /\ bx_pc # "raised"
        /\ bx_pc = "returned" =>
              \A i \in PaddedDirectives :
                 \A k \in DOMAIN FromInput(bx_new_entries, i) :
                    IsPadMarker(FromInput(bx_new_entries, i)[k]) =>
                       FromInput(bx_new_entries, i)[k].date
                          = IF PreferredDates(i) = {}
                            THEN DayBefore(bx_entries[i].date)
                            ELSE LatestDate(PreferredDates(i))

\* C29, the dates alone: a call that returns dates every pad marker as the
\* claim says
C29_DateOfReturned ==
    (GetPreferredPadDates(bx_config) # <<>> /\ bx_pc = "returned") =>
        \A i \in PaddedDirectives :
           \A k \in DOMAIN FromInput(bx_new_entries, i) :
              IsPadMarker(FromInput(bx_new_entries, i)[k]) =>
                 FromInput(bx_new_entries, i)[k].date
                    = IF PreferredDates(i) = {}
                      THEN DayBefore(bx_entries[i].date)
                      ELSE LatestDate(PreferredDates(i))

---------------------------------------------------------------------------
\* currencies_used with extend_from_pad_directives.

\* the currencies of the postings on the account in the input
PostingCurrencies(account) ==
    {p.currency : p \in {q \in UNION {{cu_entries[i].postings[k] :
                                          k \in DOMAIN cu_entries[i].postings} :
                                      i \in DOMAIN cu_entries} : q.account = account}}

\* the currencies of the Balance directives on the account in the input
BalanceCurrencies(account) ==
    {cu_entries[i].currency :
        i \in {j \in DOMAIN cu_entries : /\ cu_entries[j].kind = "Balance"
                                         /\ cu_entries[j].account = account}}

\* the accounts that a Pad directive of the input pads from the source account
PaddedFrom(source) ==
    {cu_entries[i].account :
        i \in {j \in DOMAIN cu_entries : /\ cu_entries[j].kind = "Pad"
                                         /\ cu_entries[j].source_account = source}}

ExtendFromPad ==
    /\ "extend_from_pad_directives" \in cu_config.keys
    /\ cu_config.extend_from_pad_directives

\* C21: with extend_from_pad_directives, the Open directive of the source
\* account of a Pad directive gets as currencies_used the sorted currencies
\* used on the padded account, those used on the source account and those of
\* the Balance directives on the source account, and the Open directive of a
\* padded account that is no source keeps the currencies of its own postings.
C21_ExtendFromPad ==
    (cu_pc = "returned" /\ ExtendFromPad) =>
        \A i \in DOMAIN cu_entries :
            cu_entries[i].kind = "Open" =>
                LET a == cu_entries[i].account IN
                /\ PaddedFrom(a) # {} =>
                      cu_new_entries[i].meta.currencies_used
                          = SortedCurrencies(
                                PostingCurrencies(a) \cup BalanceCurrencies(a)
                                \cup UNION {PostingCurrencies(b) : b \in PaddedFrom(a)})
                /\ (PaddedFrom(a) = {} /\ PostingCurrencies(a) # {}) =>
                      cu_new_entries[i].meta.currencies_used
                          = SortedCurrencies(PostingCurrencies(a))

---------------------------------------------------------------------------
\* The walk of pad_extended, step by step.

\* the directive of the event that the walk processes next
HeadEntry == entries[Head(postings).idx]

\* the walk has processed at least one event of the walked account
Walked == Walking /\ Len(Timeline(entries, account_)) > Len(postings)

\* the transaction recorded last against the active pad marker
LastRecorded(ne) == ne[active_pad][Len(ne[active_pad])]

\* C22: a correction for a Balance entry of amount A in currency C has the
\* adjusting amount A minus the running inventory of C, and right after it
\* the running inventory of C, which the later entries are compared with, is A.
C22_CorrectionRestoresBalance ==
    [][(/\ pc = "event"
        /\ active_pad \in DOMAIN new_entries
        /\ Len(new_entries'[active_pad]) = Len(new_entries[active_pad]) + 1)
       => /\ HeadEntry.kind = "Balance"
          /\ LastRecorded(new_entries').postings[1].currency = HeadEntry.currency
          /\ LastRecorded(new_entries').postings[1].number
                = HeadEntry.number
                    - get_currency_units(pad_balance, HeadEntry.currency)
          /\ get_currency_units(pad_balance', HeadEntry.currency)
                = HeadEntry.number]_vars

\* a correction over an inventory that held units of the currency
C22_Witness ==
    /\ Walked
    /\ active_pad \in DOMAIN new_entries
    /\ new_entries[active_pad] # <<>>
    /\ LET e == entries[LastEvent.idx]
           t == LastRecorded(new_entries)
       IN /\ e.kind = "Balance"
          /\ t.postings[1].meta = e.lineno
          /\ t.postings[1].number \notin {0, e.number}
          /\ get_currency_units(pad_balance, e.currency) = e.number

\* the walk is at a Balance entry
AtBalance ==
    /\ pc = "event"
    /\ Head(postings).pidx = 0
    /\ ~is_pad_entry(HeadEntry, config)
    /\ HeadEntry.kind = "Balance"

\* C23: every Balance entry that the walk passes, holding or not, marks its
\* currency as checked; a transaction is synthesized only for a currency not
\* yet checked; and within a walk a currency leaves the checked ones only when
\* a pad marker of the walked account becomes the active pad.
C23_CheckedOncePerActivation ==
    [][/\ (AtBalance /\ outcome' # "raised")
              => HeadEntry.currency \in padded_lots'
       /\ (/\ pc = "event"
           /\ active_pad \in DOMAIN new_entries
           /\ Len(new_entries'[active_pad]) > Len(new_entries[active_pad]))
              => HeadEntry.currency \notin padded_lots
       /\ (pc = "event" /\ ~(padded_lots \subseteq padded_lots'))
              => /\ Head(postings).pidx = 0
                 /\ is_pad_entry(HeadEntry, config)
                 /\ get_padded_account(HeadEntry) = account_
                 /\ active_pad' = Head(postings).idx]_vars

\* a Balance entry that fails under an active pad and gets no correction,
\* behind an entry of its currency that held
C23_Witness ==
    /\ Walked
    /\ active_pad \in DOMAIN new_entries
    /\ LET e == entries[LastEvent.idx]
       IN /\ e.kind = "Balance"
          /\ Fails(e)
          /\ e.currency \in padded_lots
          /\ \A k \in DOMAIN new_entries[active_pad] :
                new_entries[active_pad][k].postings[1].currency # e.currency

\* the pad markers of the walked account among the events the walk has
\* processed, by their place in the timeline
MarkersBehind ==
    LET full == Timeline(entries, account_)
    IN {n \in 1..(Len(full) - Len(postings)) :
           /\ full[n].pidx = 0
           /\ is_pad_entry(entries[full[n].idx], config)
           /\ (IF entries[full[n].idx].kind = "Pad"
               THEN entries[full[n].idx].account
               ELSE entries[full[n].idx].values[1]) = account_}

\* the most recent pad marker of the walked account, 0 for none
MostRecentMarker ==
    IF MarkersBehind = {} THEN 0
    ELSE Timeline(entries, account_)[Max(MarkersBehind)].idx

\* the walk is at a pad marker of another account than the walked one
AtForeignMarker ==
    /\ pc = "event"
    /\ Head(postings).pidx = 0
    /\ is_pad_entry(HeadEntry, config)
    /\ (IF HeadEntry.kind = "Pad" THEN HeadEntry.account
        ELSE HeadEntry.values[1]) # account_

\* C24: during a walk the active pad is the most recent pad marker of the
\* walked account among the events processed, every transaction is recorded
\* against it, and a pad marker of another account (of a descendant, or a
\* native Pad that only draws from the walked account) leaves the active pad
\* and the checked currencies as they are.
C24_RecordedAgainstLatestMarker ==
    /\ [](Walking => active_pad = MostRecentMarker)
    /\ [][/\ pc = "event"
             => \A i \in DOMAIN new_entries :
                   new_entries'[i] # new_entries[i] => i = MostRecentMarker
          /\ AtForeignMarker
             => (active_pad' = active_pad /\ padded_lots' = padded_lots)]_vars

\* the walk has passed a pad marker of another account while a pad was
\* active and a currency was checked
C24_Witness ==
    /\ Walked
    /\ LastEvent.pidx = 0
    /\ is_pad_entry(entries[LastEvent.idx], config)
    /\ LastEvent.idx # active_pad
    /\ active_pad # 0
    /\ padded_lots # {}
    /\ new_entries[active_pad] # <<>>

\* the lots of the currency that the running inventory holds at a cost
LotsAtCost(currency) ==
    {k \in Currencies \X (Costs \ {NoCost}) : k[1] = currency /\ pad_balance[k] # 0}

\* the diagnostics about a lot at cost in a list of diagnostics
CostDiagnostics(errs) ==
    {n \in DOMAIN errs : errs[n].message = "Attempt to pad an entry with cost"}

\* C25: the step that synthesizes the correction for a Balance entry appends
\* one "Attempt to pad an entry with cost" diagnostic for every lot of the
\* currency held at cost, the correction has no cost, the walk goes on with
\* the next event and the accounts still to walk, and no other step of the
\* walk appends a diagnostic.
C25_CostReportedAndPadded ==
    [][/\ (/\ pc = "event"
           /\ active_pad \in DOMAIN new_entries
           /\ Len(new_entries'[active_pad]) = Len(new_entries[active_pad]) + 1)
          => /\ Len(pad_errors') = Len(pad_errors)
                                     + Cardinality(LotsAtCost(HeadEntry.currency))
             /\ \A n \in (DOMAIN pad_errors') \ (DOMAIN pad_errors) :
                   /\ pad_errors'[n].message = "Attempt to pad an entry with cost"
                   /\ pad_errors'[n].source = HeadEntry.lineno
                   /\ pad_errors'[n].entry = active_pad
             /\ \A q \in 1..2 : LastRecorded(new_entries').postings[q].cost = NoCost
             /\ postings' = Tail(postings)
             /\ walk_queue' = walk_queue
             /\ outcome' = "running"
             /\ pc' \in {"event", "walk"}
       /\ (pc = "event" /\ pad_errors' # pad_errors)
          => (/\ active_pad \in DOMAIN new_entries
              /\ Len(new_entries'[active_pad]) = Len(new_entries[active_pad]) + 1)]_vars

\* a correction over lots at two costs, returned with its two diagnostics
C25_Witness ==
    /\ Done
    /\ \E i \in DOMAIN new_entries :
          /\ new_entries[i] # <<>>
          /\ Cardinality({n \in CostDiagnostics(pad_errors) :
                             /\ pad_errors[n].entry = i
                             /\ pad_errors[n].source
                                   = new_entries[i][1].postings[1].meta}) = 2

\* C27: no call raises "Position held at cost goes negative": a correction is
\* added to the running inventory without cost, and it leaves the lots held
\* at a cost as they are.
C27_NeverNegativeAtCost ==
    /\ [](outcome # "raised")
    /\ [][(/\ pc = "event"
           /\ active_pad \in DOMAIN new_entries
           /\ Len(new_entries'[active_pad]) = Len(new_entries[active_pad]) + 1)
          => /\ \A k \in Currencies \X (Costs \ {NoCost}) :
                   pad_balance'[k] = pad_balance[k]
             /\ pad_balance'[<<HeadEntry.currency, NoCost>>]
                   = pad_balance[<<HeadEntry.currency, NoCost>>]
                       + LastRecorded(new_entries').postings[1].number]_vars

\* a correction has been made over an inventory that holds a negative lot of
\* the currency at a cost
C27_Witness ==
    /\ Walked
    /\ active_pad \in DOMAIN new_entries
    /\ new_entries[active_pad] # <<>>
    /\ LET e == entries[LastEvent.idx]
       IN /\ e.kind = "Balance"
          /\ LastRecorded(new_entries).postings[1].meta = e.lineno
          /\ \E k \in Currencies \X (Costs \ {NoCost}) :
                k[1] = e.currency /\ pad_balance[k] < 0

---------------------------------------------------------------------------
\* The walks of pad_extended in another order of the padded accounts.

\* the state that the walks read and write
WalkState(inv, active, lots, cache, ne, raised) ==
    [inv |-> inv, active |-> active, lots |-> lots, cache |-> cache, ne |-> ne,
     raised |-> raised]

\* one iteration of the loop over the postings of the walked account
StepOf(st, ev, account) ==
    LET entry == entries[ev.idx]
        d == DiffPosition(entry, st.inv)
        source == get_source_account(entries[st.active], d.number,
                                     default_pad_account_config, st.cache)
        pos == st.inv[<<d.currency, d.cost>>]
    IN IF st.raised THEN st
       ELSE IF ev.pidx > 0
       THEN [st EXCEPT !.inv = add_position(@, entry.postings[ev.pidx].number,
                                            entry.postings[ev.pidx].currency,
                                            entry.postings[ev.pidx].cost)]
       ELSE IF is_pad_entry(entry, config)
       THEN IF get_padded_account(entry) = account
            THEN [st EXCEPT !.active = ev.idx, !.lots = {}]
            ELSE st
       ELSE IF entry.kind # "Balance" THEN st
       ELSE IF ~MustPad(entry, st.inv, st.active, st.lots)
       THEN [st EXCEPT !.lots = MarkPadded(@, entry.currency)]
       ELSE IF source.raised \/ (pos # 0 /\ is_negative_at_cost(pos, d.cost))
       THEN [st EXCEPT !.raised = TRUE]
       ELSE [st EXCEPT !.cache = source.cache,
                       !.ne = RecordEntry(@, st.active,
                                  NewEntry(entries[st.active], entry, d, source.res)),
                       !.inv = add_position(@, d.number, d.currency, d.cost),
                       !.lots = MarkPadded(@, entry.currency)]

RECURSIVE WalkTimeline(_, _, _)
WalkTimeline(evs, st, account) ==
    IF evs = <<>> THEN st
    ELSE WalkTimeline(Tail(evs), StepOf(st, Head(evs), account), account)

\* the loop over the padded accounts, taken in the given order
RECURSIVE WalkInOrder(_, _)
WalkInOrder(order, st) ==
    IF order = <<>> THEN st
    ELSE WalkInOrder(Tail(order),
             WalkTimeline(Timeline(entries, Head(order)),
                          [st EXCEPT !.inv = EmptyInventory, !.active = 0,
                                     !.lots = {}],
                          Head(order)))

\* the orders in which the accounts of the sequence can be taken
Orders(accounts) ==
    {[i \in 1..Len(accounts) |-> accounts[f[i]]] :
        f \in Permutations(1..Len(accounts))}

\* the directive list that the call returns when it walks in the given order
ReturnedInOrder(order) ==
    LET st == WalkInOrder(order,
                  WalkState(EmptyInventory, 0, {}, {},
                            [i \in PadIds(entries, config) |-> <<>>], FALSE))
    IN [raised |-> st.raised,
        list |-> Flatten([i \in 1..Len(entries) |->
                             EmitEntry(entries, i, st.ne, config)])]

\* C26: whatever the order in which the padded accounts are walked, the call
\* returns the directive list that it returns; every walk starts from an
\* empty inventory, no active pad and no checked currency, and a transaction
\* is recorded against a pad marker only in the walk of its padded account.
C26_WalkOrderIrrelevant ==
    /\ [](Completed =>
             \A order \in Orders(SortedPadAccounts(entries, config)) :
                /\ ~ReturnedInOrder(order).raised
                /\ ReturnedInOrder(order).list = padded_entries)
    /\ [][/\ account_' # account_
             => /\ pad_balance' = EmptyInventory
                /\ active_pad' = 0
                /\ padded_lots' = {}
          /\ \A i \in DOMAIN new_entries :
                new_entries'[i] # new_entries[i]
                   => (IF entries[i].kind = "Pad" THEN entries[i].account
                       ELSE entries[i].values[1]) = account_]_vars

\* a call that has recorded transactions in the walks of two accounts
C26_Witness ==
    /\ Completed
    /\ \E i, j \in DOMAIN new_entries :
          /\ new_entries[i] # <<>>
          /\ new_entries[j] # <<>>
          /\ new_entries[i][1].postings[1].account
                # new_entries[j][1].postings[1].account

---------------------------------------------------------------------------
\* group_pad_transactions.

\* a padding transaction: flag "P" and the mark "(Padding inserted" in the
\* narration
IsPaddingTransaction(e) ==
    /\ e.kind = "Transaction"
    /\ e.flag = "P"
    /\ e.narration \in {PaddingNarration, NotedPaddingNarration}

\* the postings of the transactions of a list
PostingsOf(list) ==
    Flatten([n \in 1..Len(list) |->
                IF list[n].kind = "Transaction" THEN list[n].postings ELSE <<>>])

\* how often the posting is among the postings
CountOf(posts, p) == Cardinality({n \in DOMAIN posts : posts[n] = p})

\* the (date, account pair) groups of the padding transactions of the input
GroupsOfInput ==
    {<<gp_entries[i].date,
       {gp_entries[i].postings[n].account : n \in DOMAIN gp_entries[i].postings}>> :
        i \in {j \in DOMAIN gp_entries : IsPaddingTransaction(gp_entries[j])}}

\* C30: the returned list holds every directive of the input that is no
\* padding transaction, unchanged and in the order of the input, and one
\* transaction for every group of padding transactions with one date and
\* account pair; the postings of its transactions are, with their
\* multiplicity, the postings of the transactions of the input.
C30_GroupingKeepsTheRest ==
    gp_pc = "returned" =>
        /\ SelectSeq(gp_result,
                     LAMBDA e : \E i \in DOMAIN gp_entries :
                                   /\ gp_entries[i] = e
                                   /\ ~IsPaddingTransaction(e))
              = SelectSeq(gp_entries, LAMBDA e : ~IsPaddingTransaction(e))
        /\ \A p \in {PostingsOf(gp_entries)[n] : n \in DOMAIN PostingsOf(gp_entries)}
                \cup {PostingsOf(gp_result)[n] : n \in DOMAIN PostingsOf(gp_result)} :
              CountOf(PostingsOf(gp_result), p) = CountOf(PostingsOf(gp_entries), p)
        /\ Len(gp_result)
              = Len(SelectSeq(gp_entries, LAMBDA e : ~IsPaddingTransaction(e)))
                  + Cardinality(GroupsOfInput)

====
